---------------------------- MODULE Spec2Model ----------------------------
(***************************************************************************)
(* A model of EarthEngineService (earthengine_service.ts): the hash-keyed  *)
(* thumbnail / statistics cache in front of the Earth Engine provider.     *)
(*                                                                         *)
(* One action models one synchronous segment of an async method, that is   *)
(* the code between two awaits: JavaScript runs such a segment without     *)
(* interleaving, and other calls may run between segments.  The provider,  *)
(* the HTTP download and the file system are the environment: whether a    *)
(* request succeeds, what the statistics query returns and whether a write *)
(* of the metadata file succeeds are chosen nondeterministically.          *)
(***************************************************************************)
EXTENDS Integers, Sequences, FiniteSets, TLC

(***************************************************************************)
(* Bounds of the model.                                                    *)
(***************************************************************************)
\* getter calls (getDEMThumbnail, getRoadsThumbnail, getElevationStats)
\* started over a behaviour
MaxCalls == 2

\* the slots of the calls in flight (concurrent inbound requests)
Procs == {1, 2}

\* bounding boxes handed to the getters (whole degrees)
Regions == {[west |-> -118, south |-> 35, east |-> -117, north |-> 36]}

\* the probe size of getElevationStats
StatsProbeWidth == 800
StatsProbeHeight == 600
\* the default thumbnail size
DefaultSize == 512

\* (width, height) pairs handed to the thumbnail getters
Sizes == {<<DefaultSize, DefaultSize>>, <<StatsProbeWidth, StatsProbeHeight>>}

\* what the region reduction can return for {DSM_min, DSM_max, DSM_mean}
StatsValues == {[min |-> 0, max |-> 100, mean |-> 50],
                [min |-> 5, max |-> 90, mean |-> 40]}

\* options.skipCache as the caller passes it (an optional boolean)
Undefined == "undefined"
SkipOptions == {"true", "false", Undefined}

\* config.skipCache of the service instance the servers construct
ConfigSkipCache == "false"

VARIABLES
    initialized,    \* this.initialized
    cacheMetadata,  \* this.cacheMetadata: cache key -> CacheEntry
    diskMetadata,   \* the parsed content of <cacheDir>/dem_cache.json
    files,          \* the image files present in cacheDir
    initPc,         \* the await the initialize() call is suspended at
    pc,             \* per slot: the await its call is suspended at
    call,           \* per slot: the arguments and locals of its call
    cnt,            \* per slot: requests and downloads issued by its call
    started,        \* getter calls started so far
    prev,           \* the getter call that completed last, with its
                    \* result and what it issued
    initPrev,       \* how the initialize() call that completed last ended
    keyArgs,        \* key derivation: the two argument tuples
    keyOut,         \* key derivation: the two keys derived, or none yet
    onDisk,         \* construction: the cache directory and the metadata
                    \* file as the constructor finds them
    constructed,    \* construction: the instance the constructor returned
    hreq,           \* server: the request a POST handler is working on
    hpc,            \* server: the await the handler is suspended at
    hcalls,         \* server: the service operations the handler has
                    \* called, each with how it settled
    hresp,          \* server: the response the handler has sent
    cin,            \* client: the arguments of the loadLayerImage call
    cpc,            \* client: the await loadLayerImage is suspended at
    dom             \* client: the page elements loadLayerImage works on

\* the variables of the service instance and of its getter calls
svcVars == <<initialized, initPc, cacheMetadata, diskMetadata, files,
             pc, call, cnt, started, prev, initPrev>>

\* the variables of the key derivation on its own
keyVars == <<keyArgs, keyOut>>

\* the variables of the construction on its own
loadVars == <<onDisk, constructed>>

\* the variables of a POST handler of the servers
httpVars == <<hreq, hpc, hcalls, hresp>>

\* the variables of the page
clientVars == <<cin, cpc, dom>>

\* the variables outside the service instance
others == <<keyVars, loadVars, httpVars, clientVars>>

vars == <<initialized, initPc, cacheMetadata, diskMetadata, files,
          pc, call, cnt, started, prev, initPrev, others>>

\* Date.now(): the clock, which moves on whenever a getter call starts
now == started

(***************************************************************************)
(* Pure helpers.                                                           *)
(***************************************************************************)
\* the SHA-256 hex digest, taken as injective on the strings it is given
Sha256Hex(data) == "#" \o data

\* a faulty key, whose numbers are joined without a delimiter
getCacheKey_noDelimiter(region, width, height) ==
    Sha256Hex(ToString(region.west) \o ToString(region.south)
              \o ToString(region.east) \o ToString(region.north)
              \o ToString(width) \o ToString(height))

\* getCacheKey: the six numbers joined by "," and digested
getCacheKey(region, width, height) ==
    Sha256Hex(ToString(region.west) \o "," \o ToString(region.south) \o ","
              \o ToString(region.east) \o "," \o ToString(region.north) \o ","
              \o ToString(width) \o "," \o ToString(height))

\* a faulty roads key, without the suffix: it is the DEM key
roadsCacheKey_noSuffix(region, width, height) ==
    getCacheKey(region, width, height)

\* the key getRoadsThumbnail uses
roadsCacheKey(region, width, height) ==
    getCacheKey(region, width, height) \o "_roads"

\* the key getElevationStats uses
statsCacheKey(region) == getCacheKey(region, StatsProbeWidth, StatsProbeHeight)

\* shouldSkipCache: options?.skipCache ?? this.config.skipCache ?? false
shouldSkipCache(opt) ==
    IF opt # Undefined THEN opt = "true"
    ELSE IF ConfigSkipCache # Undefined THEN ConfigSkipCache = "true"
    ELSE FALSE

demFilename(key) == "dem_" \o key \o ".png"
compositeFilename(key) == "dem_roads_" \o key \o ".png"
\* a faulty name, the same for every key
roadsFilename_unkeyed(key) == "roads.png"
roadsFilename(key) == "roads_" \o key \o ".png"
UrlOf(filename) == "/images/earthengine/" \o filename

\* a field of a CacheEntry is present (not undefined)
Has(entry, field) == field \in DOMAIN entry
\* a filename field is truthy: present and not the empty string
Truthy(entry, field) == Has(entry, field) /\ entry[field] # ""
\* the metadata map holds an entry under key
Cached(meta, key) == key \in DOMAIN meta
\* a faulty assignment, which merges the fields of the entry into the old one
Put_mergesFields(meta, key, entry) ==
    IF key \in DOMAIN meta THEN (key :> (entry @@ meta[key])) @@ meta
    ELSE (key :> entry) @@ meta

\* meta[key] = entry
Put(meta, key, entry) == (key :> entry) @@ meta

\* results of a call
NoResult == [kind |-> "none"]
UrlResult(u) == [kind |-> "url", url |-> u]
StatsResult(s) == [kind |-> "stats", stats |-> s]
ErrorResult(e) == [kind |-> "error", error |-> e]
NotInitializedError == ErrorResult("EarthEngineService not initialized. Call initialize() first.")
ProviderError == ErrorResult("provider request failed")
DownloadError == ErrorResult("Failed to download image")

NoCall == [op |-> "none"]
\* what a call has issued so far: provider requests (elev, comp, roads,
\* stats) and downloads (dlDem, dlComp, dlRoads), and which of them failed
\* ("overlay": building the road overlay of the composite failed; "save":
\* the write of the metadata file failed)
ZeroCnt == [elev |-> 0, comp |-> 0, roads |-> 0, stats |-> 0,
            dlDem |-> 0, dlComp |-> 0, dlRoads |-> 0, failed |-> {}]
Bump(c, field) == [c EXCEPT ![field] = @ + 1]
Fail(c, what) == [c EXCEPT !.failed = @ \cup {what}]


(***************************************************************************)
(* The cache look-ups.  Each yields the filename served on a hit, or Miss. *)
(***************************************************************************)
Miss == ""

\* a faulty look-up that never serves the composite
demCacheLookup_imageOnly(meta, fs, key, skipCache, demOnly) ==
    IF /\ ~skipCache
       /\ Cached(meta, key)
       /\ Truthy(meta[key], "imageFilename")
       /\ meta[key].imageFilename \in fs
    THEN meta[key].imageFilename
    ELSE Miss

\* a faulty look-up that serves nothing but the composite
demCacheLookup_compositeOnly(meta, fs, key, skipCache, demOnly) ==
    IF /\ ~skipCache
       /\ Cached(meta, key)
       /\ Truthy(meta[key], "compositeImageFilename")
       /\ meta[key].compositeImageFilename \in fs
    THEN meta[key].compositeImageFilename
    ELSE Miss

\* a faulty look-up that prefers the composite whatever demOnly says
demCacheLookup_ignoresDemOnly(meta, fs, key, skipCache, demOnly) ==
    IF ~skipCache /\ Cached(meta, key)
    THEN LET cached == meta[key] IN
         IF /\ Truthy(cached, "compositeImageFilename")
            /\ cached.compositeImageFilename \in fs
         THEN cached.compositeImageFilename
         ELSE IF /\ Truthy(cached, "imageFilename")
                 /\ cached.imageFilename \in fs
         THEN cached.imageFilename
         ELSE Miss
    ELSE Miss

\* getDEMThumbnail, the block under `if (!skipCache && cached)`
demCacheLookup(meta, fs, key, skipCache, demOnly) ==
    IF ~skipCache /\ Cached(meta, key)
    THEN LET cached == meta[key] IN
         IF /\ ~demOnly
            /\ Truthy(cached, "compositeImageFilename")
            /\ cached.compositeImageFilename \in fs
         THEN cached.compositeImageFilename
         ELSE IF /\ Truthy(cached, "imageFilename")
                 /\ cached.imageFilename \in fs
         THEN cached.imageFilename
         ELSE Miss
    ELSE Miss

\* getRoadsThumbnail, the block under `if (!skipCache && cachedRoadsFile)`
roadsCacheLookup(meta, fs, key, skipCache) ==
    IF /\ ~skipCache
       /\ Cached(meta, key)
       /\ Truthy(meta[key], "roadsImageFilename")
       /\ meta[key].roadsImageFilename \in fs
    THEN meta[key].roadsImageFilename
    ELSE Miss

\* a faulty test, which serves cached stats also under skipCache
statsCacheHit_ignoresSkipCache(meta, key, skipCache) ==
    Cached(meta, key) /\ Has(meta[key], "stats")

\* getElevationStats: `!skipCache && cached && cached.stats`
statsCacheHit(meta, key, skipCache) ==
    ~skipCache /\ Cached(meta, key) /\ Has(meta[key], "stats")

(***************************************************************************)
(* The entries the getters record.                                         *)
(***************************************************************************)
\* a faulty elevation-only entry, which names a composite all the same
demEntry_namesComposite(key, stats, t) ==
    [imageFilename |-> demFilename(key),
     compositeImageFilename |-> compositeFilename(key),
     stats |-> stats, timestamp |-> t]

demEntry(key, stats, t) ==
    [imageFilename |-> demFilename(key), stats |-> stats, timestamp |-> t]

\* a faulty composite entry, which leaves the statistics out
compositeEntry_noStats(key, stats, t) ==
    [imageFilename |-> demFilename(key),
     compositeImageFilename |-> compositeFilename(key),
     timestamp |-> t]

\* a faulty composite entry, which forgets the elevation-only image
compositeEntry_dropsImage(key, stats, t) ==
    [compositeImageFilename |-> compositeFilename(key),
     stats |-> stats, timestamp |-> t]

compositeEntry(key, stats, t) ==
    [imageFilename |-> demFilename(key),
     compositeImageFilename |-> compositeFilename(key),
     stats |-> stats, timestamp |-> t]

roadsEntry(key, t) ==
    [roadsImageFilename |-> roadsFilename(key), timestamp |-> t]

\* a faulty merge, which always writes the placeholder entry
statsMerge_replaces(meta, key, stats, t) ==
    Put(meta, key, [imageFilename |-> "", stats |-> stats, timestamp |-> t])

\* getElevationStats: merge into an existing entry, or create a placeholder
statsMerge(meta, key, stats, t) ==
    IF Cached(meta, key)
    THEN Put(meta, key, ("stats" :> stats) @@ meta[key])
    ELSE Put(meta, key, [imageFilename |-> "", stats |-> stats, timestamp |-> t])

\* a faulty save, which adds the new keys to the file and leaves the
\* entries the file already holds as they are
saveCacheMetadata_appends(meta, disk, writeOk) ==
    IF writeOk THEN disk @@ meta ELSE disk

\* saveCacheMetadata: the whole map replaces the file; a failed write is
\* logged and leaves the file as it was
saveCacheMetadata(meta, disk, writeOk) == IF writeOk THEN meta ELSE disk

\* createCompositeThumbnail: a failure to build the road overlay is caught
\* and replaced by an empty overlay; the thumbnail request may throw
createCompositeThumbnail(isInitialized, roadsOk, thumbOk) ==
    IF ~isInitialized THEN [threw |-> TRUE, overlay |-> "none"]
    ELSE [threw |-> ~thumbOk,
          overlay |-> IF roadsOk THEN "roads" ELSE "empty"]

(***************************************************************************)
(* The state after construction: an empty cache directory, no call made.   *)
(***************************************************************************)
\* the service instance as constructed over an empty cache directory
ServiceInit ==
    /\ initialized = FALSE
    /\ initPc = "idle"
    /\ cacheMetadata = <<>>
    /\ diskMetadata = <<>>
    /\ files = {}
    /\ pc = [p \in Procs |-> "idle"]
    /\ call = [p \in Procs |-> NoCall]
    /\ cnt = [p \in Procs |-> ZeroCnt]
    /\ started = 0
    /\ prev = [call |-> NoCall, result |-> NoResult, cnt |-> ZeroCnt]
    /\ initPrev = "none"

\* no key derivation is under study
KeyIdle == keyArgs = <<>> /\ keyOut = <<>>

\* the instance of ServiceInit was constructed over an empty cache
\* directory without metadata file
LoadIdle ==
    /\ onDisk = [dir |-> TRUE, file |-> "missing", doc |-> <<>>]
    /\ constructed = [kind |-> "instance", cacheMetadata |-> <<>>]

\* no request is being handled
NoRequest == [server |-> "none"]
NoResponse == [status |-> 0]
HttpIdle ==
    /\ hreq = NoRequest
    /\ hpc = "idle"
    /\ hcalls = <<>>
    /\ hresp = NoResponse

\* no page is open
ClientIdle ==
    /\ cin = <<>>
    /\ cpc = "closed"
    /\ dom = <<>>

Init == ServiceInit /\ KeyIdle /\ LoadIdle /\ HttpIdle /\ ClientIdle

\* a gate that is always open
throwsNotInitialized_never == FALSE

\* the gate of the three getters: `if (!this.initialized) throw`
throwsNotInitialized == ~initialized

\* a new call takes the lowest free slot
CanStart(p) ==
    /\ pc[p] = "idle"
    /\ \A q \in Procs : q < p => pc[q] # "idle"

\* the slot of p is freed
Release(p) ==
    /\ pc' = [pc EXCEPT ![p] = "idle"]
    /\ call' = [call EXCEPT ![p] = NoCall]
    /\ cnt' = [cnt EXCEPT ![p] = ZeroCnt]

\* the getter call c in slot p returns or throws res, having issued k
Finish(p, c, res, k) ==
    /\ Release(p)
    /\ prev' = [call |-> c, result |-> res, cnt |-> k]

\* the call c in slot p is suspended at an await
Suspend(p, c, at, k) ==
    /\ pc' = [pc EXCEPT ![p] = at]
    /\ call' = [call EXCEPT ![p] = c]
    /\ cnt' = [cnt EXCEPT ![p] = k]
    /\ UNCHANGED prev

(***************************************************************************)
(* getDEMThumbnail(region, width, height, {skipCache, demOnly}).           *)
(***************************************************************************)
\* a catch block that rethrows instead of falling back
demFallback_rethrows(p, k, thumbOk) ==
    Finish(p, call[p], ProviderError, k)

\* the catch block: request the elevation thumbnail again and download it
demFallback(p, k, thumbOk) ==
    IF thumbOk
    THEN Suspend(p, call[p], "dem_fb_download", Bump(Bump(k, "elev"), "dlDem"))
    ELSE Finish(p, call[p], ProviderError, Fail(Bump(k, "elev"), "elev"))

\* a faulty start, which on a miss joins a call in flight for the same key
\* instead of issuing a request and a download of its own
getDEMThumbnail_Start_coalesced(p, region, width, height, opt, demOnly, thumbOk) ==
    LET skipCache == shouldSkipCache(opt)
        cacheKey == getCacheKey(region, width, height)
        c == [op |-> "dem", region |-> region, width |-> width,
              height |-> height, skipCache |-> skipCache,
              demOnly |-> demOnly, key |-> cacheKey]
        hit == demCacheLookup(cacheMetadata, files, cacheKey, skipCache, demOnly)
        inFlight == \E q \in Procs :
                        /\ pc[q] # "idle"
                        /\ call[q].op = "dem"
                        /\ call[q].key = cacheKey
    IN  /\ CanStart(p)
        /\ started < MaxCalls
        /\ started' = started + 1
        /\ IF throwsNotInitialized THEN Finish(p, c, NotInitializedError, ZeroCnt)
           ELSE IF hit # Miss THEN Finish(p, c, UrlResult(UrlOf(hit)), ZeroCnt)
           ELSE IF inFlight THEN Suspend(p, c, "dem_download", ZeroCnt)
           ELSE IF thumbOk
           THEN Suspend(p, c, "dem_download", Bump(Bump(ZeroCnt, "elev"), "dlDem"))
           ELSE Finish(p, c, ProviderError, Fail(Bump(ZeroCnt, "elev"), "elev"))
        /\ UNCHANGED <<others, initPrev, initialized, initPc, cacheMetadata, diskMetadata, files>>

\* from the call to the first await: the initialization gate, the cache
\* look-up and, on a miss, the elevation thumbnail request
getDEMThumbnail_Start(p, region, width, height, opt, demOnly, thumbOk) ==
    LET skipCache == shouldSkipCache(opt)
        cacheKey == getCacheKey(region, width, height)
        c == [op |-> "dem", region |-> region, width |-> width,
              height |-> height, skipCache |-> skipCache,
              demOnly |-> demOnly, key |-> cacheKey]
        hit == demCacheLookup(cacheMetadata, files, cacheKey, skipCache, demOnly)
    IN  /\ CanStart(p)
        /\ started < MaxCalls
        /\ started' = started + 1
        /\ IF throwsNotInitialized THEN Finish(p, c, NotInitializedError, ZeroCnt)
           ELSE IF hit # Miss THEN Finish(p, c, UrlResult(UrlOf(hit)), ZeroCnt)
           ELSE IF thumbOk
           THEN Suspend(p, c, "dem_download", Bump(Bump(ZeroCnt, "elev"), "dlDem"))
           ELSE Finish(p, c, ProviderError, Fail(Bump(ZeroCnt, "elev"), "elev"))
        /\ UNCHANGED <<others, initPrev, initialized, initPc, cacheMetadata, diskMetadata, files>>

\* the download of dem_<key>.png ends; then either the statistics query
\* (demOnly) or the composite thumbnail request
getDEMThumbnail_Downloaded(p, dlOk, roadsOk, compOk, thumbOk) ==
    LET composite == createCompositeThumbnail(initialized, roadsOk, compOk)
        k == IF composite.overlay = "empty"
             THEN Fail(Bump(cnt[p], "comp"), "overlay")
             ELSE Bump(cnt[p], "comp")
    IN  /\ pc[p] = "dem_download"
        /\ IF ~dlOk
           THEN /\ Finish(p, call[p], DownloadError, Fail(cnt[p], "dlDem"))
                /\ UNCHANGED files
           ELSE /\ files' = files \cup {demFilename(call[p].key)}
                /\ IF call[p].demOnly
                   THEN Suspend(p, call[p], "dem_stats", Bump(cnt[p], "stats"))
                   ELSE IF composite.threw
                   THEN demFallback(p, Fail(k, "comp"), thumbOk)
                   ELSE Suspend(p, call[p], "dem_comp_download", Bump(k, "dlComp"))
        /\ UNCHANGED <<others, initPrev, initialized, initPc, cacheMetadata, diskMetadata, started>>

\* a faulty recording, which rolls the map back when the save fails
Record_rollsBack(p, meta, writeOk) ==
    /\ cacheMetadata' = IF writeOk THEN meta ELSE cacheMetadata
    /\ diskMetadata' = saveCacheMetadata(meta, diskMetadata, writeOk)

\* the entry is recorded under the key of the call in slot p and saved
Record(p, meta, writeOk) ==
    /\ cacheMetadata' = meta
    /\ diskMetadata' = saveCacheMetadata(meta, diskMetadata, writeOk)

\* what the call in slot p has issued, with the outcome of its save
Saved(p, writeOk) == IF writeOk THEN cnt[p] ELSE Fail(cnt[p], "save")

\* demOnly: the statistics query ends; record {imageFilename, stats}
getDEMThumbnail_DemOnlyStats(p, statsOk, stats, writeOk) ==
    /\ pc[p] = "dem_stats"
    /\ IF statsOk
       THEN /\ Record(p, Put(cacheMetadata, call[p].key,
                             demEntry(call[p].key, stats, now)), writeOk)
            /\ Finish(p, call[p], UrlResult(UrlOf(demFilename(call[p].key))),
                      Saved(p, writeOk))
       ELSE /\ Finish(p, call[p], ProviderError, Fail(cnt[p], "stats"))
            /\ UNCHANGED <<cacheMetadata, diskMetadata>>
    /\ UNCHANGED <<others, initPrev, initialized, initPc, files, started>>

\* inside the try block: the download of dem_roads_<key>.png ends
getDEMThumbnail_CompositeDownloaded(p, dlOk, thumbOk) ==
    /\ pc[p] = "dem_comp_download"
    /\ IF dlOk
       THEN /\ files' = files \cup {compositeFilename(call[p].key)}
            /\ Suspend(p, call[p], "dem_comp_stats", Bump(cnt[p], "stats"))
       ELSE /\ demFallback(p, Fail(cnt[p], "dlComp"), thumbOk)
            /\ UNCHANGED files
    /\ UNCHANGED <<others, initPrev, initialized, initPc, cacheMetadata, diskMetadata, started>>

\* inside the try block: the statistics query ends; record the composite
getDEMThumbnail_CompositeStats(p, statsOk, stats, writeOk, thumbOk) ==
    /\ pc[p] = "dem_comp_stats"
    /\ IF statsOk
       THEN /\ Record(p, Put(cacheMetadata, call[p].key,
                             compositeEntry(call[p].key, stats, now)), writeOk)
            /\ Finish(p, call[p],
                      UrlResult(UrlOf(compositeFilename(call[p].key))),
                      Saved(p, writeOk))
       ELSE /\ demFallback(p, Fail(cnt[p], "stats"), thumbOk)
            /\ UNCHANGED <<cacheMetadata, diskMetadata>>
    /\ UNCHANGED <<others, initPrev, initialized, initPc, files, started>>

\* the catch block: the second download of dem_<key>.png ends
getDEMThumbnail_FallbackDownloaded(p, dlOk) ==
    /\ pc[p] = "dem_fb_download"
    /\ IF dlOk
       THEN /\ files' = files \cup {demFilename(call[p].key)}
            /\ Suspend(p, call[p], "dem_fb_stats", Bump(cnt[p], "stats"))
       ELSE /\ Finish(p, call[p], DownloadError, Fail(cnt[p], "dlDem"))
            /\ UNCHANGED files
    /\ UNCHANGED <<others, initPrev, initialized, initPc, cacheMetadata, diskMetadata, started>>

\* the catch block: the statistics query ends; record {imageFilename, stats}
getDEMThumbnail_FallbackStats(p, statsOk, stats, writeOk) ==
    /\ pc[p] = "dem_fb_stats"
    /\ IF statsOk
       THEN /\ Record(p, Put(cacheMetadata, call[p].key,
                             demEntry(call[p].key, stats, now)), writeOk)
            /\ Finish(p, call[p], UrlResult(UrlOf(demFilename(call[p].key))),
                      Saved(p, writeOk))
       ELSE /\ Finish(p, call[p], ProviderError, Fail(cnt[p], "stats"))
            /\ UNCHANGED <<cacheMetadata, diskMetadata>>
    /\ UNCHANGED <<others, initPrev, initialized, initPc, files, started>>

(***************************************************************************)
(* getRoadsThumbnail(region, width, height, {skipCache}).                  *)
(***************************************************************************)
\* from the call to the first await: the gate, the look-up and, on a miss,
\* the styled roads thumbnail request
getRoadsThumbnail_Start(p, region, width, height, opt, thumbOk) ==
    LET skipCache == shouldSkipCache(opt)
        cacheKey == roadsCacheKey(region, width, height)
        c == [op |-> "roads", region |-> region, width |-> width,
              height |-> height, skipCache |-> skipCache,
              demOnly |-> FALSE, key |-> cacheKey]
        hit == roadsCacheLookup(cacheMetadata, files, cacheKey, skipCache)
    IN  /\ CanStart(p)
        /\ started < MaxCalls
        /\ started' = started + 1
        /\ IF throwsNotInitialized THEN Finish(p, c, NotInitializedError, ZeroCnt)
           ELSE IF hit # Miss THEN Finish(p, c, UrlResult(UrlOf(hit)), ZeroCnt)
           ELSE IF thumbOk
           THEN Suspend(p, c, "roads_download", Bump(Bump(ZeroCnt, "roads"), "dlRoads"))
           ELSE Finish(p, c, ProviderError, Fail(Bump(ZeroCnt, "roads"), "roads"))
        /\ UNCHANGED <<others, initPrev, initialized, initPc, cacheMetadata, diskMetadata, files>>

\* a faulty continuation, which records the entry before it looks at the
\* outcome of the download
getRoadsThumbnail_Downloaded_recordsFirst(p, dlOk, writeOk) ==
    /\ pc[p] = "roads_download"
    /\ Record(p, Put(cacheMetadata, call[p].key,
                     roadsEntry(call[p].key, now)), writeOk)
    /\ IF dlOk
       THEN /\ files' = files \cup {roadsFilename(call[p].key)}
            /\ Finish(p, call[p], UrlResult(UrlOf(roadsFilename(call[p].key))),
                      Saved(p, writeOk))
       ELSE /\ Finish(p, call[p], DownloadError, Fail(cnt[p], "dlRoads"))
            /\ UNCHANGED files
    /\ UNCHANGED <<others, initPrev, initialized, initPc, started>>

\* the download of roads_<key>.png ends; record {roadsImageFilename}
getRoadsThumbnail_Downloaded(p, dlOk, writeOk) ==
    /\ pc[p] = "roads_download"
    /\ IF dlOk
       THEN /\ files' = files \cup {roadsFilename(call[p].key)}
            /\ Record(p, Put(cacheMetadata, call[p].key,
                             roadsEntry(call[p].key, now)), writeOk)
            /\ Finish(p, call[p], UrlResult(UrlOf(roadsFilename(call[p].key))),
                      Saved(p, writeOk))
       ELSE /\ Finish(p, call[p], DownloadError, Fail(cnt[p], "dlRoads"))
            /\ UNCHANGED <<files, cacheMetadata, diskMetadata>>
    /\ UNCHANGED <<others, initPrev, initialized, initPc, started>>

(***************************************************************************)
(* getElevationStats(region, {skipCache}), called by a client.  The calls  *)
(* getDEMThumbnail makes with {skipCache: true} are part of its actions.   *)
(***************************************************************************)
\* from the call to the await of the region reduction
getElevationStats_Start(p, region, opt) ==
    LET skipCache == shouldSkipCache(opt)
        cacheKey == statsCacheKey(region)
        c == [op |-> "stats", region |-> region, width |-> StatsProbeWidth,
              height |-> StatsProbeHeight, skipCache |-> skipCache,
              demOnly |-> FALSE, key |-> cacheKey]
    IN  /\ CanStart(p)
        /\ started < MaxCalls
        /\ started' = started + 1
        /\ IF throwsNotInitialized THEN Finish(p, c, NotInitializedError, ZeroCnt)
           ELSE IF statsCacheHit(cacheMetadata, cacheKey, skipCache)
           THEN Finish(p, c, StatsResult(cacheMetadata[cacheKey].stats), ZeroCnt)
           ELSE Suspend(p, c, "stats_eval", Bump(ZeroCnt, "stats"))
        /\ UNCHANGED <<others, initPrev, initialized, initPc, cacheMetadata, diskMetadata, files>>

\* the region reduction ends; unless skipCache, merge the stats and save
getElevationStats_Evaluated(p, statsOk, stats, writeOk) ==
    /\ pc[p] = "stats_eval"
    /\ IF ~statsOk
       THEN /\ Finish(p, call[p], ProviderError, Fail(cnt[p], "stats"))
            /\ UNCHANGED <<cacheMetadata, diskMetadata>>
       ELSE IF ~call[p].skipCache
       THEN /\ Record(p, statsMerge(cacheMetadata, call[p].key, stats, now), writeOk)
            /\ Finish(p, call[p], StatsResult(stats), Saved(p, writeOk))
       ELSE /\ Finish(p, call[p], StatsResult(stats), cnt[p])
            /\ UNCHANGED <<cacheMetadata, diskMetadata>>
    /\ UNCHANGED <<others, initPrev, initialized, initPc, files, started>>

(***************************************************************************)
(* initialize(), which the server calls once at a time.                    *)
(***************************************************************************)
\* a faulty start, without the early return of an initialized service
initialize_Start_again(keyOk) ==
    /\ initPc = "idle"
    /\ initPc' = IF ~keyOk THEN "idle" ELSE "auth"
    /\ initPrev' = IF ~keyOk THEN "failed" ELSE initPrev
    /\ UNCHANGED <<others, initialized, cacheMetadata, diskMetadata, files,
                   pc, call, cnt, started, prev>>

\* the early return, or the read of the credential file and the start of
\* the authentication
initialize_Start(keyOk) ==
    /\ initPc = "idle"
    /\ initPc' = IF initialized \/ ~keyOk THEN "idle" ELSE "auth"
    /\ initPrev' = IF initialized THEN "returned"
                   ELSE IF ~keyOk THEN "failed"
                   ELSE initPrev
    /\ UNCHANGED <<others, initialized, cacheMetadata, diskMetadata, files,
                   pc, call, cnt, started, prev>>

\* a faulty continuation, which starts the handshake whatever the outcome
\* of the authentication
initialize_Authenticated_anyway(authOk) ==
    /\ initPc = "auth"
    /\ initPc' = "handshake"
    /\ initPrev' = IF authOk THEN initPrev ELSE "failed"
    /\ UNCHANGED <<others, initialized, cacheMetadata, diskMetadata, files,
                   pc, call, cnt, started, prev>>

\* authenticateAsync ends; on success the handshake starts
initialize_Authenticated(authOk) ==
    /\ initPc = "auth"
    /\ initPc' = IF authOk THEN "handshake" ELSE "idle"
    /\ initPrev' = IF authOk THEN initPrev ELSE "failed"
    /\ UNCHANGED <<others, initialized, cacheMetadata, diskMetadata, files,
                   pc, call, cnt, started, prev>>

\* initializeAsync ends; on success the service is initialized
initialize_HandshakeDone(eeOk) ==
    /\ initPc = "handshake"
    /\ initPc' = "idle"
    /\ IF eeOk THEN initialized' = TRUE ELSE UNCHANGED initialized
    /\ initPrev' = IF eeOk THEN "initialized" ELSE "failed"
    /\ UNCHANGED <<others, cacheMetadata, diskMetadata, files,
                   pc, call, cnt, started, prev>>

(***************************************************************************)
(* The environment.                                                        *)
(***************************************************************************)
\* the filenames the entries of the metadata map name
NamedFiles(meta) ==
    {meta[kf[1]][kf[2]] : kf \in
        {x \in (DOMAIN meta) \X {"imageFilename", "compositeImageFilename",
                                "roadsImageFilename"} : Has(meta[x[1]], x[2])}}

\* an image file is removed from the cache directory behind the service.
\* The service looks for a file only under a name an entry holds and only
\* when a getter call starts, so a removal is followed only where a later
\* look-up can tell.
DeleteFile(f) ==
    /\ f \in files
    /\ f \in NamedFiles(cacheMetadata)
    /\ started < MaxCalls
    /\ files' = files \ {f}
    /\ UNCHANGED <<others, initPrev, initialized, initPc, cacheMetadata, diskMetadata,
                   pc, call, cnt, started, prev>>

Next ==
    \/ \E p \in Procs, region \in Regions, size \in Sizes, opt \in SkipOptions,
          demOnly \in BOOLEAN, thumbOk \in BOOLEAN :
          getDEMThumbnail_Start(p, region, size[1], size[2], opt, demOnly, thumbOk)
    \/ \E p \in Procs, dlOk \in BOOLEAN, roadsOk \in BOOLEAN, compOk \in BOOLEAN,
          thumbOk \in BOOLEAN :
          getDEMThumbnail_Downloaded(p, dlOk, roadsOk, compOk, thumbOk)
    \/ \E p \in Procs, statsOk \in BOOLEAN, stats \in StatsValues, writeOk \in BOOLEAN :
          getDEMThumbnail_DemOnlyStats(p, statsOk, stats, writeOk)
    \/ \E p \in Procs, dlOk \in BOOLEAN, thumbOk \in BOOLEAN :
          getDEMThumbnail_CompositeDownloaded(p, dlOk, thumbOk)
    \/ \E p \in Procs, statsOk \in BOOLEAN, stats \in StatsValues, writeOk \in BOOLEAN,
          thumbOk \in BOOLEAN :
          getDEMThumbnail_CompositeStats(p, statsOk, stats, writeOk, thumbOk)
    \/ \E p \in Procs, dlOk \in BOOLEAN :
          getDEMThumbnail_FallbackDownloaded(p, dlOk)
    \/ \E p \in Procs, statsOk \in BOOLEAN, stats \in StatsValues, writeOk \in BOOLEAN :
          getDEMThumbnail_FallbackStats(p, statsOk, stats, writeOk)
    \/ \E p \in Procs, region \in Regions, size \in Sizes, opt \in SkipOptions,
          thumbOk \in BOOLEAN :
          getRoadsThumbnail_Start(p, region, size[1], size[2], opt, thumbOk)
    \/ \E p \in Procs, dlOk \in BOOLEAN, writeOk \in BOOLEAN :
          getRoadsThumbnail_Downloaded(p, dlOk, writeOk)
    \/ \E p \in Procs, region \in Regions, opt \in SkipOptions :
          getElevationStats_Start(p, region, opt)
    \/ \E p \in Procs, statsOk \in BOOLEAN, stats \in StatsValues, writeOk \in BOOLEAN :
          getElevationStats_Evaluated(p, statsOk, stats, writeOk)
    \/ \E keyOk \in BOOLEAN : initialize_Start(keyOk)
    \/ \E authOk \in BOOLEAN : initialize_Authenticated(authOk)
    \/ \E eeOk \in BOOLEAN : initialize_HandshakeDone(eeOk)
    \/ \E f \in files : DeleteFile(f)

Spec == Init /\ [][Next]_vars

(***************************************************************************)
(* Vocabulary of the properties.                                           *)
(***************************************************************************)
\* no call is in flight
Quiet == \A p \in Procs : pc[p] = "idle"

\* this step starts a getter call
StartsGetter == started' = started + 1

\* the call a StartsGetter step starts: it has returned within the step
\* (pc is as before, prev' describes it) or it is suspended in its slot
StartedCall ==
    IF pc' = pc THEN prev'.call
    ELSE call'[CHOOSE p \in Procs : pc'[p] # pc[p]]

\* this step resumes the getter call in slot p
Resumes(p) == pc[p] # "idle" /\ pc'[p] # pc[p]

\* two calls of one getter with the same (region, width, height, demOnly)
SameRequest(c, d) ==
    /\ c.op = d.op
    /\ c.region = d.region
    /\ c.width = d.width
    /\ c.height = d.height
    /\ c.demOnly = d.demOnly

\* provider requests and downloads a call has issued
ProviderCalls(k) == k.elev + k.comp + k.roads + k.stats
Downloads(k) == k.dlDem + k.dlComp + k.dlRoads

\* the entry under key as a set: empty when there is none
EntryAt(meta, key) == IF Cached(meta, key) THEN {meta[key]} ELSE {}

\* the last completed getter call returned this file's URL
Returned(filename) ==
    prev.result.kind = "url" /\ prev.result.url = UrlOf(filename)

(***************************************************************************)
(* C1.  Cache-hit idempotence: when the getter call that completed last    *)
(* was a getDEMThumbnail or getRoadsThumbnail call without skipCache that  *)
(* returned a URL, and the file behind that URL is still in the cache      *)
(* directory, a call with the same (region, width, height, demOnly) and    *)
(* without skipCache returns within its first step, with the same URL and  *)
(* without any provider request or download.                               *)
(***************************************************************************)
C1_CacheHitIdempotence ==
    [][(/\ StartsGetter
        /\ prev.call.op \in {"dem", "roads"}
        /\ prev.result.kind = "url"
        /\ ~prev.call.skipCache
        /\ SameRequest(StartedCall, prev.call)
        /\ ~StartedCall.skipCache
        /\ \E f \in files : UrlOf(f) = prev.result.url)
       => (/\ pc' = pc
           /\ prev'.result = prev.result
           /\ prev'.cnt = ZeroCnt)]_vars

\* a composite fetch has been followed by a hit on the composite
C1_Witness ==
    /\ started = 2
    /\ prev.call.op = "dem"
    /\ ~prev.call.demOnly
    /\ Returned(compositeFilename(prev.call.key))
    /\ prev.cnt = ZeroCnt

(***************************************************************************)
(* C2.  Bypass symmetry: a getter call with skipCache = true is never      *)
(* answered from the cache and none of its steps changes the metadata map  *)
(* or the metadata file.                                                   *)
(***************************************************************************)
C2_BypassSymmetry ==
    [][/\ \A p \in Procs :
            (Resumes(p) /\ call[p].skipCache)
            => UNCHANGED <<cacheMetadata, diskMetadata>>
       /\ (StartsGetter /\ StartedCall.skipCache /\ pc' = pc)
            => (prev'.result.kind = "error"
                /\ UNCHANGED <<cacheMetadata, diskMetadata>>)]_vars

(***************************************************************************)
(* C3.  Composite fallback: a getDEMThumbnail call with demOnly = false    *)
(* whose composite thumbnail request threw, and in which nothing else but  *)
(* possibly the save failed, returned the URL of dem_<key>.png, and the    *)
(* entry it recorded (and saved, when the save succeeded) has no           *)
(* compositeImageFilename.                                                 *)
(***************************************************************************)
C3_CompositeFallback ==
    (/\ prev.call.op = "dem"
     /\ ~prev.call.demOnly
     /\ "comp" \in prev.cnt.failed
     /\ prev.cnt.failed \subseteq {"comp", "save"})
    => (/\ Returned(demFilename(prev.call.key))
        /\ Cached(cacheMetadata, prev.call.key)
        /\ ~Has(cacheMetadata[prev.call.key], "compositeImageFilename")
        /\ cacheMetadata[prev.call.key].imageFilename = demFilename(prev.call.key)
        /\ "save" \notin prev.cnt.failed
            => (/\ Cached(diskMetadata, prev.call.key)
                /\ ~Has(diskMetadata[prev.call.key], "compositeImageFilename")))

\* the fallback has replaced an entry that held a composite
C3_Witness ==
    /\ prev.call.op = "dem"
    /\ ~prev.call.demOnly
    /\ prev.cnt.failed = {"comp", "save"}
    /\ Returned(demFilename(prev.call.key))
    /\ Cached(diskMetadata, prev.call.key)
    /\ Has(diskMetadata[prev.call.key], "compositeImageFilename")
    /\ ~Has(cacheMetadata[prev.call.key], "compositeImageFilename")

(***************************************************************************)
(* C4.  Key-space separation: the key of a getRoadsThumbnail call differs  *)
(* from the key getDEMThumbnail derives from the same (region, width,      *)
(* height), and the other way round; and no step of either call changes    *)
(* the entry under the other getter's key.                                 *)
(***************************************************************************)
OtherKey(c) ==
    IF c.op = "dem" THEN roadsCacheKey(c.region, c.width, c.height)
    ELSE getCacheKey(c.region, c.width, c.height)

C4_KeySpaceSeparation ==
    [][/\ \A p \in Procs :
            (Resumes(p) /\ call[p].op \in {"dem", "roads"})
            => (/\ call[p].key # OtherKey(call[p])
                /\ EntryAt(cacheMetadata', OtherKey(call[p]))
                    = EntryAt(cacheMetadata, OtherKey(call[p])))
       /\ (StartsGetter /\ StartedCall.op \in {"dem", "roads"})
            => (/\ StartedCall.key # OtherKey(StartedCall)
                /\ UNCHANGED cacheMetadata)]_vars

\* both getters have recorded an entry for one (region, width, height)
C4_Witness ==
    \E region \in Regions, size \in Sizes :
        /\ Cached(cacheMetadata, getCacheKey(region, size[1], size[2]))
        /\ Cached(cacheMetadata, roadsCacheKey(region, size[1], size[2]))
        /\ Has(cacheMetadata[roadsCacheKey(region, size[1], size[2])],
               "roadsImageFilename")
        /\ Has(cacheMetadata[getCacheKey(region, size[1], size[2])],
               "imageFilename")

(***************************************************************************)
(* C5.  From an empty cache, getDEMThumbnail(region, 512, 512,             *)
(* {demOnly: true}) called twice in sequence without skipCache.            *)
(***************************************************************************)
\* the step in which the second of the two calls starts, the first having
\* returned its URL and its file being still there
C5_SecondCallStarts ==
    /\ started = 1
    /\ Quiet
    /\ prev.call.op = "dem"
    /\ prev.call.demOnly
    /\ ~prev.call.skipCache
    /\ prev.call.width = DefaultSize
    /\ prev.call.height = DefaultSize
    /\ prev.result.kind = "url"
    /\ demFilename(prev.call.key) \in files
    /\ StartsGetter
    /\ SameRequest(StartedCall, prev.call)
    /\ ~StartedCall.skipCache

\* C5 as claimed: the two calls together issue exactly one provider call
\* and exactly one download
C5_OneProviderCall ==
    [][C5_SecondCallStarts
       => (/\ pc' = pc
           /\ ProviderCalls(prev.cnt) + ProviderCalls(prev'.cnt) = 1
           /\ Downloads(prev.cnt) + Downloads(prev'.cnt) = 1)]_vars

\* C5 as amended: the two calls together issue exactly two provider calls,
\* one elevation thumbnail request and one statistics query, and exactly
\* one download
C5_TwoProviderCalls ==
    [][C5_SecondCallStarts
       => (/\ pc' = pc
           /\ prev.cnt.elev + prev'.cnt.elev = 1
           /\ prev.cnt.stats + prev'.cnt.stats = 1
           /\ ProviderCalls(prev.cnt) + ProviderCalls(prev'.cnt) = 2
           /\ Downloads(prev.cnt) + Downloads(prev'.cnt) = 1
           /\ prev'.result = prev.result)]_vars

\* the second of the two calls has returned from the cache
C5_Witness ==
    /\ started = 2
    /\ Quiet
    /\ prev.call.op = "dem"
    /\ prev.call.demOnly
    /\ ~prev.call.skipCache
    /\ prev.call.width = DefaultSize
    /\ Returned(demFilename(prev.call.key))
    /\ prev.cnt = ZeroCnt

(***************************************************************************)
(* C6.  Stats resolution-independence: after one getDEMThumbnail call on   *)
(* an empty cache has returned its URL, whether getElevationStats(region)  *)
(* is answered from the cache, and with which statistics, is the same as   *)
(* it would be had the getDEMThumbnail call been made with any other       *)
(* (width, height).                                                        *)
(***************************************************************************)
\* what getElevationStats(region) without skipCache finds in the cache:
\* the statistics it returns at once, or nothing
statsServed(meta, region) ==
    IF statsCacheHit(meta, statsCacheKey(region), FALSE)
    THEN {meta[statsCacheKey(region)].stats}
    ELSE {}

\* the metadata map one successful getDEMThumbnail(region, size) call
\* leaves on an empty cache
demRecorded(region, size, composite, stats, t) ==
    LET key == getCacheKey(region, size[1], size[2])
    IN  Put(<<>>, key, IF composite THEN compositeEntry(key, stats, t)
                       ELSE demEntry(key, stats, t))

C6_StatsResolutionIndependence ==
    (/\ started = 1
     /\ Quiet
     /\ prev.call.op = "dem"
     /\ prev.result.kind = "url")
    => LET e == cacheMetadata[prev.call.key]
       IN  \A size \in Sizes :
               statsServed(cacheMetadata, prev.call.region)
               = statsServed(demRecorded(prev.call.region, size,
                                         Has(e, "compositeImageFilename"),
                                         e.stats, e.timestamp),
                             prev.call.region)

(***************************************************************************)
(* C7.  Initialization gate: as long as initialize() has not completed     *)
(* successfully, every getter call made so far has failed at once with     *)
(* the "not initialized" error, none is in flight, none has issued a       *)
(* provider request or a download, and the metadata map, the metadata      *)
(* file and the cache directory are as they were at construction.          *)
(***************************************************************************)
C7_InitializationGate ==
    ~initialized
    => (/\ Quiet
        /\ started > 0 => (/\ prev.result = NotInitializedError
                           /\ prev.cnt = ZeroCnt)
        /\ cacheMetadata = <<>>
        /\ diskMetadata = <<>>
        /\ files = {})

\* getters have been called while initialize() was waiting for the provider
C7_Witness ==
    /\ ~initialized
    /\ initPc = "handshake"
    /\ started = 2
    /\ prev.call.op = "stats"
    /\ prev.result = NotInitializedError

(***************************************************************************)
(* C8.  Error propagation: a getter call in which the elevation thumbnail  *)
(* request, the download of the elevation or road image, the road          *)
(* thumbnail request or the statistics query failed has failed itself.     *)
(***************************************************************************)
C8_ErrorPropagation ==
    (prev.cnt.failed \cap {"elev", "dlDem", "roads", "dlRoads", "stats"}) # {}
    => prev.result.kind = "error"

(***************************************************************************)
(* C9.  Persistence failures are swallowed: when the getter call in slot p *)
(* completes and its write of the metadata file has failed, the call       *)
(* returns its URL or statistics all the same, the metadata map holds the  *)
(* entry the call recorded, and the metadata file is as it was.            *)
(***************************************************************************)
\* entry e is what call c, having returned res at time t, records
RecordedBy(c, res, e, t) ==
    CASE c.op = "roads" ->
            /\ res = UrlResult(UrlOf(roadsFilename(c.key)))
            /\ e = roadsEntry(c.key, t)
      [] c.op = "dem" ->
            \/ /\ res = UrlResult(UrlOf(compositeFilename(c.key)))
               /\ e = compositeEntry(c.key, e.stats, t)
            \/ /\ res = UrlResult(UrlOf(demFilename(c.key)))
               /\ e = demEntry(c.key, e.stats, t)
      [] c.op = "stats" ->
            /\ res.kind = "stats"
            /\ Has(e, "stats")
            /\ e.stats = res.stats
      [] OTHER -> FALSE

C9_PersistenceFailuresSwallowed ==
    [][\A p \in Procs :
          (Resumes(p) /\ pc'[p] = "idle" /\ "save" \in prev'.cnt.failed)
          => (/\ prev'.call = call[p]
              /\ prev'.result.kind \in {"url", "stats"}
              /\ Cached(cacheMetadata', call[p].key)
              /\ RecordedBy(call[p], prev'.result,
                            cacheMetadata'[call[p].key], now)
              /\ diskMetadata' = diskMetadata)]_vars

\* a call has returned its URL although its entry did not reach the file
C9_Witness ==
    /\ "save" \in prev.cnt.failed
    /\ prev.result.kind = "url"
    /\ Cached(cacheMetadata, prev.call.key)
    /\ ~Cached(diskMetadata, prev.call.key)
    /\ diskMetadata # <<>>

(***************************************************************************)
(* C10.  A getDEMThumbnail call that fetched the composite and returned    *)
(* its URL leaves an entry that has compositeImageFilename and still has   *)
(* imageFilename, the name of the elevation-only image; so it does when    *)
(* the entry before it came from a DEM-only fetch.                         *)
(***************************************************************************)
C10_CompositeKeepsImageFilename ==
    (/\ prev.call.op = "dem"
     /\ prev.cnt.comp > 0
     /\ Returned(compositeFilename(prev.call.key)))
    => (/\ Cached(cacheMetadata, prev.call.key)
        /\ Has(cacheMetadata[prev.call.key], "compositeImageFilename")
        /\ Truthy(cacheMetadata[prev.call.key], "imageFilename")
        /\ cacheMetadata[prev.call.key].imageFilename
            = demFilename(prev.call.key)
        /\ cacheMetadata[prev.call.key].compositeImageFilename
            = compositeFilename(prev.call.key))

\* the composite fetch came second: the metadata file, which its failed
\* save left alone, still holds the entry of the elevation-only fetch
C10_Witness ==
    /\ started = 2
    /\ prev.call.op = "dem"
    /\ prev.cnt.comp > 0
    /\ Returned(compositeFilename(prev.call.key))
    /\ "save" \in prev.cnt.failed
    /\ Cached(diskMetadata, prev.call.key)
    /\ Truthy(diskMetadata[prev.call.key], "imageFilename")
    /\ ~Has(diskMetadata[prev.call.key], "compositeImageFilename")
    /\ Has(cacheMetadata[prev.call.key], "imageFilename")

(***************************************************************************)
(* C11.  Post-state of a successful composite miss: when a getDEMThumbnail *)
(* call with demOnly = false that missed the cache returns, its elevation  *)
(* and composite requests, both downloads and the statistics query having  *)
(* succeeded, it returns the composite URL; the entry under its key holds  *)
(* imageFilename, compositeImageFilename and stats {min, max, mean}; and   *)
(* dem_<key>.png and dem_roads_<key>.png are both in the cache directory   *)
(* (a file that an entry already named before the return may have been     *)
(* removed behind the service in the meantime).                            *)
(***************************************************************************)
\* the call in slot p returns in this step from a composite fetch in which
\* no request and no download failed
ReturnsCompositeFetch(p) ==
    /\ Resumes(p)
    /\ pc'[p] = "idle"
    /\ call[p].op = "dem"
    /\ ~call[p].demOnly
    /\ prev'.call = call[p]
    /\ prev'.result.kind = "url"
    /\ prev'.cnt.failed \subseteq {"save"}

C11_CompositeMissPostState ==
    [][\A p \in Procs :
          ReturnsCompositeFetch(p)
          => LET key == call[p].key
             IN  /\ prev'.result = UrlResult(UrlOf(compositeFilename(key)))
                 /\ prev'.cnt.elev = 1 /\ prev'.cnt.dlDem = 1
                 /\ prev'.cnt.comp = 1 /\ prev'.cnt.dlComp = 1
                 /\ prev'.cnt.stats = 1
                 /\ Cached(cacheMetadata', key)
                 /\ cacheMetadata'[key].imageFilename = demFilename(key)
                 /\ cacheMetadata'[key].compositeImageFilename
                     = compositeFilename(key)
                 /\ Has(cacheMetadata'[key], "stats")
                 /\ cacheMetadata'[key].stats \in StatsValues
                 /\ DOMAIN cacheMetadata'[key].stats = {"min", "max", "mean"}
                 /\ \A f \in {demFilename(key), compositeFilename(key)} :
                        f \in files' \/ f \in NamedFiles(cacheMetadata)]_vars

\* a composite fetch on a key without entry has returned: both files are
\* there and the entry is recorded and saved
C11_Witness ==
    /\ prev.call.op = "dem"
    /\ ~prev.call.demOnly
    /\ prev.cnt.failed = {}
    /\ prev.cnt.dlComp = 1
    /\ Returned(compositeFilename(prev.call.key))
    /\ {demFilename(prev.call.key), compositeFilename(prev.call.key)}
        \subseteq files
    /\ DOMAIN cacheMetadata = {prev.call.key}
    /\ diskMetadata = cacheMetadata
    /\ started = 1

(***************************************************************************)
(* C12.  The statistics key lies outside the thumbnail key space: a        *)
(* getElevationStats call and a getDEMThumbnail call for the same region   *)
(* never work on the same key, whatever width and height the thumbnail     *)
(* call is given, and getElevationStats is never answered from an entry    *)
(* that getDEMThumbnail recorded.                                          *)
(***************************************************************************)
C12_StatsKeyOutsideThumbnailKeys ==
    /\ \A p, q \in Procs :
          (/\ call[p].op = "stats"
           /\ call[q].op = "dem"
           /\ call[p].region = call[q].region)
          => call[p].key # call[q].key
    /\ (/\ prev.call.op = "stats"
        /\ prev.result.kind = "stats"
        /\ prev.cnt = ZeroCnt)
       => ~Truthy(cacheMetadata[prev.call.key], "imageFilename")

(***************************************************************************)
(* C13.  initialize() is idempotent after success: once the service is     *)
(* initialized, no initialize() call is at the authentication or at the    *)
(* handshake, and the initialize() call that completed last either made    *)
(* the service initialized or returned at once, before the read of the     *)
(* credential file; a call that returned at once found, and left, the      *)
(* service initialized.                                                    *)
(***************************************************************************)
C13_InitializeIdempotent ==
    /\ initialized
        => (initPc = "idle" /\ initPrev \in {"initialized", "returned"})
    /\ initPrev = "returned" => initialized

\* initialize() has been called again after its success, while getters run
C13_Witness ==
    /\ initialized
    /\ initPrev = "returned"
    /\ started > 0

(***************************************************************************)
(* Construction on its own: the constructor and loadCacheMetadata, applied *)
(* to a cache directory and a metadata file as a process may find them at  *)
(* its start.  The file is missing, or it is unreadable (it cannot be read *)
(* or it is no JSON text, as after a write that was cut short), or it      *)
(* holds the document an earlier saveCacheMetadata wrote.                  *)
(***************************************************************************)
\* the keys of the thumbnail getters
DemKeys == {getCacheKey(r, s[1], s[2]) : r \in Regions, s \in Sizes}
RoadsKeys == {roadsCacheKey(r, s[1], s[2]) : r \in Regions, s \in Sizes}

\* the entries the getters record under a key
EntriesFor(key) ==
    IF key \in RoadsKeys THEN {roadsEntry(key, 1)}
    ELSE UNION {{demEntry(key, st, 1), compositeEntry(key, st, 1),
                 statsMerge(<<>>, key, st, 1)[key]} : st \in StatsValues}

\* the documents saveCacheMetadata can have written
SavedDocuments ==
    UNION {{doc \in [K -> UNION {EntriesFor(k) : k \in K}] :
               \A k \in K : doc[k] \in EntriesFor(k)}
           : K \in SUBSET (DemKeys \cup RoadsKeys)}

\* what a starting process can find on disk
DiskSituations ==
    {[dir |-> FALSE, file |-> "missing", doc |-> <<>>],
     [dir |-> TRUE, file |-> "missing", doc |-> <<>>],
     [dir |-> TRUE, file |-> "unreadable", doc |-> <<>>]}
    \cup {[dir |-> TRUE, file |-> "json", doc |-> d] : d \in SavedDocuments}

\* a faulty load, which lets the failure to read or parse the file escape
loadCacheMetadata_unguarded(d) ==
    [dir |-> TRUE,
     threw |-> d.file = "unreadable",
     warned |-> FALSE,
     meta |-> IF d.file = "json" THEN d.doc ELSE <<>>]

\* loadCacheMetadata: create the directory if it is missing; if the file
\* exists read and parse it, and on a failure warn and start empty
loadCacheMetadata(d) ==
    [dir |-> TRUE,
     threw |-> FALSE,
     warned |-> d.file = "unreadable",
     meta |-> IF d.file = "missing" THEN <<>>
              ELSE IF d.file = "unreadable" THEN <<>>
              ELSE d.doc]

NoInstance == [kind |-> "none"]

\* new EarthEngineService(config)
constructor ==
    LET loaded == loadCacheMetadata(onDisk)
    IN  /\ constructed = NoInstance
        /\ onDisk' = [onDisk EXCEPT !.dir = loaded.dir]
        /\ constructed' = IF loaded.threw THEN [kind |-> "failed"]
                          ELSE [kind |-> "instance",
                                cacheMetadata |-> loaded.meta]
        /\ UNCHANGED <<svcVars, keyVars, httpVars, clientVars>>

\* the process ends; what is on disk stays
processExit ==
    /\ constructed # NoInstance
    /\ constructed' = NoInstance
    /\ UNCHANGED <<onDisk, svcVars, keyVars, httpVars, clientVars>>

InitLoad ==
    /\ ServiceInit
    /\ KeyIdle
    /\ HttpIdle
    /\ ClientIdle
    /\ onDisk \in DiskSituations
    /\ constructed = NoInstance

NextLoad == constructor \/ processExit

SpecLoad == InitLoad /\ [][NextLoad]_vars

(***************************************************************************)
(* C14.  Metadata load at construction: construction never fails; after it *)
(* the cache directory exists; the in-memory map is empty when the file is *)
(* missing and when it is unreadable, and is the saved document otherwise; *)
(* in every case it is a map from cache keys to entries.                   *)
(***************************************************************************)
\* e is a CacheEntry: optional filenames and stats, and a timestamp
IsCacheEntry(e) ==
    /\ DOMAIN e \subseteq {"imageFilename", "compositeImageFilename",
                          "roadsImageFilename", "stats", "timestamp"}
    /\ Has(e, "timestamp")

IsCacheMetadata(meta) ==
    \A k \in DOMAIN meta :
        k \in (DemKeys \cup RoadsKeys) /\ IsCacheEntry(meta[k])

KeyRegions ==
    [west : {-1, -11}, south : {18, 8}, east : {1, 12}, north : {23, 3}]

KeyTuples ==
    [region : KeyRegions, width : {51, 512}, height : {2, 12}]

\* getCacheKey is called with the one tuple and with the other
getCacheKey_Twice ==
    /\ keyOut = <<>>
    /\ keyOut' = <<getCacheKey(keyArgs[1].region, keyArgs[1].width,
                               keyArgs[1].height),
                   getCacheKey(keyArgs[2].region, keyArgs[2].width,
                               keyArgs[2].height)>>
    /\ UNCHANGED <<keyArgs, svcVars, loadVars, httpVars, clientVars>>

InitKey ==
    /\ ServiceInit
    /\ LoadIdle
    /\ HttpIdle
    /\ ClientIdle
    /\ keyArgs \in KeyTuples \X KeyTuples
    /\ keyOut = <<>>

NextKey == getCacheKey_Twice

SpecKey == InitKey /\ [][NextKey]_vars

(***************************************************************************)
(* C15.  Key determinism: two derivations yield the same key exactly when  *)
(* their six arguments (west, south, east, north, width, height) are the   *)
(* same, the digest being taken as injective: identical arguments give the *)
(* identical key, and arguments that differ, in one field or in more, give *)
(* different keys.                                                         *)
(***************************************************************************)
C15_KeyDeterminism ==
    keyOut # <<>>
    => (keyOut[1] = keyOut[2] <=> keyArgs[1] = keyArgs[2])

\* the keys of two tuples that differ in the width only have been derived
C15_Witness ==
    /\ keyOut # <<>>
    /\ keyArgs[1].region = keyArgs[2].region
    /\ keyArgs[1].height = keyArgs[2].height
    /\ keyArgs[1].width # keyArgs[2].width
    /\ keyOut[1] # keyOut[2]

(***************************************************************************)
(* The POST handlers of the two servers (Express: part_000, Bun:           *)
(* src/index.ts) on their own.  One request is followed from its arrival   *)
(* to its response; how each service operation settles is chosen among the *)
(* results the service can give.                                           *)
(***************************************************************************)
\* req.body as express.json() hands it over, or the parsed body of Bun: a
\* JSON object whose region is absent, null or a region
ObjectBodies ==
    [kind : {"object"}, region : {Undefined, "null", "region"},
     demOnly : SkipOptions, skipCache : SkipOptions]

\* bodies only the Bun handler meets, which parses the body itself: a text
\* that is no JSON, and the JSON value null
UnparsedBodies == {[kind |-> "malformed"], [kind |-> "null"]}

Requests ==
    {[server |-> "express", endpoint |-> e, body |-> b] :
        e \in {"dem", "roads"}, b \in ObjectBodies}
    \cup {[server |-> "bun", endpoint |-> e, body |-> b] :
        e \in {"dem", "roads"}, b \in ObjectBodies \cup UnparsedBodies}

\* a rejection with a value that is no Error: evaluateAsync rejects with
\* whatever the provider's callback was given
RawRejection == [kind |-> "rejection"]
SyntaxError == ErrorResult("JSON Parse error")
TypeError == ErrorResult("Cannot destructure property 'region'")

\* how a service operation can fail
ServiceFailures ==
    {NotInitializedError, ProviderError, DownloadError, RawRejection}

\* how getDEMThumbnail / getRoadsThumbnail can settle for the request
ThumbnailOutcomes(req) ==
    LET r == CHOOSE x \in Regions : TRUE
        key == getCacheKey(r, DefaultSize, DefaultSize)
    IN  ServiceFailures
        \cup (IF req.endpoint = "roads"
              THEN {UrlResult(UrlOf(roadsFilename(
                        roadsCacheKey(r, DefaultSize, DefaultSize))))}
              ELSE {UrlResult(UrlOf(demFilename(key)))}
                   \cup (IF req.body.kind = "object"
                            /\ req.body.demOnly = "true" THEN {}
                         ELSE {UrlResult(UrlOf(compositeFilename(key)))}))

\* how getElevationStats can settle
StatsOutcomes == ServiceFailures \cup {StatsResult(st) : st \in StatsValues}

\* error instanceof Error ? error.message : 'Unknown error'
errorMessage(thrown) ==
    IF thrown.kind = "error" THEN thrown.error ELSE "Unknown error"

\* res.status(n).json({error})
ErrorResponse(n, message) == [status |-> n, body |-> [error |-> message]]
\* res.json(body)
OkResponse(body) == [status |-> 200, body |-> body]

\* the handler calls a service operation and awaits it
Called(calls, op) == Append(calls, [op |-> op, result |-> NoResult])
\* the operation awaited settles
Settled(calls, outcome) == [calls EXCEPT ![Len(calls)].result = outcome]

\* what parsing and destructuring the body throws, or NoResult
bodyThrows(req) ==
    IF req.server = "bun" /\ req.body.kind = "malformed" THEN SyntaxError
    ELSE IF req.body.kind = "null" THEN TypeError
    ELSE NoResult

\* from the arrival of the request to the first await of the service
post_Receive ==
    /\ hpc = "received"
    /\ IF bodyThrows(hreq) # NoResult
       THEN /\ hresp' = ErrorResponse(500, errorMessage(bodyThrows(hreq)))
            /\ hpc' = "responded"
            /\ UNCHANGED hcalls
       ELSE IF hreq.body.region \in {Undefined, "null"}
       THEN /\ hresp' = ErrorResponse(400, "Region is required")
            /\ hpc' = "responded"
            /\ UNCHANGED hcalls
       ELSE /\ hcalls' = Called(hcalls, IF hreq.endpoint = "dem"
                                        THEN "getDEMThumbnail"
                                        ELSE "getRoadsThumbnail")
            /\ hpc' = "thumbnail"
            /\ UNCHANGED hresp
    /\ UNCHANGED <<hreq, svcVars, keyVars, loadVars, clientVars>>

\* getDEMThumbnail or getRoadsThumbnail settles; the DEM handler goes on
\* to call getElevationStats(region, {skipCache})
post_ThumbnailSettled(outcome) ==
    /\ hpc = "thumbnail"
    /\ IF outcome.kind # "url"
       THEN /\ hresp' = ErrorResponse(500, errorMessage(outcome))
            /\ hpc' = "responded"
            /\ hcalls' = Settled(hcalls, outcome)
       ELSE IF hreq.endpoint = "roads"
       THEN /\ hresp' = OkResponse([thumbnailUrl |-> outcome.url])
            /\ hpc' = "responded"
            /\ hcalls' = Settled(hcalls, outcome)
       ELSE /\ hpc' = "stats"
            /\ hcalls' = Called(Settled(hcalls, outcome), "getElevationStats")
            /\ UNCHANGED hresp
    /\ UNCHANGED <<hreq, svcVars, keyVars, loadVars, clientVars>>

\* getElevationStats settles
postDem_StatsSettled(outcome) ==
    /\ hpc = "stats"
    /\ hcalls' = Settled(hcalls, outcome)
    /\ hresp' = IF outcome.kind = "stats"
                THEN OkResponse([thumbnailUrl |-> hcalls[1].result.url,
                                 stats |-> outcome.stats])
                ELSE ErrorResponse(500, errorMessage(outcome))
    /\ hpc' = "responded"
    /\ UNCHANGED <<hreq, svcVars, keyVars, loadVars, clientVars>>

InitHttp ==
    /\ ServiceInit
    /\ KeyIdle
    /\ LoadIdle
    /\ ClientIdle
    /\ hreq \in Requests
    /\ hpc = "received"
    /\ hcalls = <<>>
    /\ hresp = NoResponse

NextHttp ==
    \/ post_Receive
    \/ \E outcome \in ThumbnailOutcomes(hreq) : post_ThumbnailSettled(outcome)
    \/ \E outcome \in StatsOutcomes : postDem_StatsSettled(outcome)

SpecHttp == InitHttp /\ [][NextHttp]_vars

(***************************************************************************)
(* C16.  HTTP error mapping, on both POST endpoints of both servers: a     *)
(* request whose body has no region is answered with status 400 and        *)
(* {error}, no service operation having been called; a failure of a        *)
(* service operation is answered with status 500 and {error: message}; a   *)
(* DEM response with thumbnailUrl is sent only after getDEMThumbnail and   *)
(* then getElevationStats have both succeeded.                             *)
(***************************************************************************)
\* the body of the request names a region
HasRegion(req) == req.body.kind = "object" /\ req.body.region = "region"

\* a service operation the handler called has failed
FailedCalls == {i \in DOMAIN hcalls : hcalls[i].result.kind \notin {"url", "stats"}}

C16_HttpErrorMapping ==
    hpc = "responded"
    => (/\ ~HasRegion(hreq)
            => (/\ hresp.status = 400
                /\ DOMAIN hresp.body = {"error"}
                /\ hcalls = <<>>)
        /\ \A i \in FailedCalls :
               hresp = ErrorResponse(500, errorMessage(hcalls[i].result))
        /\ (hreq.endpoint = "dem" /\ "thumbnailUrl" \in DOMAIN hresp.body)
            => (/\ Len(hcalls) = 2
                /\ hcalls[1].op = "getDEMThumbnail"
                /\ hcalls[1].result.kind = "url"
                /\ hcalls[2].op = "getElevationStats"
                /\ hcalls[2].result.kind = "stats"))

(***************************************************************************)
(* The browser client: loadLayerImage and initializeEarthEngine.  The page *)
(* markup is not part of the sources; the page is taken to hold the        *)
(* elements loadLayerImage asserts non-null (loading, error, stats,        *)
(* load-button, stat-min, stat-max, stat-mean, info), while layer-image    *)
(* and ee-article, which the code tests for null, may be absent.           *)
(***************************************************************************)

\* REGIONS, and a value of the region select that is not one of its keys
REGIONS == {"FUJI", "GRAND_CANYON", "RIDGECREST_CA"}
RegionKeys == REGIONS \cup {"ATLANTIS"}
\* LayerType, and a value of the layer select outside the type
LayerTypes == {"DEM", "ROADS", "DEM_ROADS"}
LayerValues == LayerTypes \cup {"SLOPE"}

\* the pages loadLayerImage can run on, before it has run
Pages ==
    [hasImage : BOOLEAN, hasArticle : BOOLEAN,
     loading : {"initial"}, error : {"initial"}, image : {"initial"},
     stats : {"initial"}, disabled : {FALSE}, src : {Undefined},
     background : {Undefined}, errorText : {""}, statText : {<<>>},
     info : {""}]

\* what `await fetch(...)` can settle with
FetchRejected == [kind |-> "rejected", error |-> "Failed to fetch"]
FetchOutcomes ==
    {FetchRejected}
        \cup [kind : {"response"}, ok : {FALSE},
              statusText : {"Bad Request", "Internal Server Error"}]
        \cup [kind : {"response"}, ok : {TRUE}, statusText : {"OK"}]

\* what `await response.json()` can settle with: a rejection, or the parsed
\* body (null, or an object whose stats are absent, null, {} or complete)
JsonRejected == [kind |-> "rejected", error |-> "JSON Parse error"]
ClientUrls == {UrlOf("k1.png"), UrlOf("k1_composite.png")}
ClientStats ==
    {[kind |-> "null"], [kind |-> "object"]}
        \cup {[kind |-> "object", min |-> v.min, max |-> v.max,
                mean |-> v.mean] : v \in StatsValues}
JsonOutcomes ==
    {JsonRejected, [kind |-> "null"]}
        \cup [kind : {"object"}, thumbnailUrl : ClientUrls]
        \cup [kind : {"object"}, thumbnailUrl : ClientUrls, stats : ClientStats]
        \cup [kind : {"object"}, error : {"Unknown error"}]

\* Number.prototype.toFixed(1) of an integer: its digits and one decimal 0
toFixed1(n) == <<n, 0>>

\* lines 52-57: show the loading state
showLoading(d) ==
    [d EXCEPT !.loading = "block",
              !.error = "none",
              !.image = IF d.hasImage THEN "none" ELSE @,
              !.stats = "none",
              !.disabled = TRUE]

\* the finally block
finallyBlock(d) == [d EXCEPT !.disabled = FALSE]

\* a catch block that leaves the loading indicator alone
catchBlock_keepsLoading(d, message) ==
    [d EXCEPT !.errorText = "Error: " \o message, !.error = "block"]

\* the catch block
catchBlock(d, message) ==
    [d EXCEPT !.errorText = "Error: " \o message,
              !.error = "block",
              !.loading = "none"]

\* lines 58-79: the synchronous checks of the try block; "" when none throws
argumentError(regionKey, layerType) ==
    IF regionKey \notin REGIONS THEN "Unknown region: " \o regionKey
    ELSE IF layerType \notin LayerTypes
    THEN "Unknown layer type: " \o layerType
    ELSE ""

\* lines 107-117: display the image and set the article background
showImage(d, data) ==
    LET url == IF Has(data, "thumbnailUrl") THEN data.thumbnailUrl
               ELSE Undefined
    IN  [d EXCEPT !.src = IF d.hasImage THEN url ELSE @,
                  !.image = IF d.hasImage THEN "block" ELSE @,
                  !.background = IF d.hasArticle THEN url ELSE @]

\* lines 119-128 read data.stats and show the statistics
statsShown(data, layerType) ==
    Has(data, "stats") /\ data.stats.kind # "null" /\ layerType # "ROADS"

infoText(layerType) ==
    CASE layerType = "DEM" -> "Digital Elevation Model (DEM) data"
      [] layerType = "ROADS" -> "OpenStreetMap road data"
      [] OTHER -> "DEM elevation data with OpenStreetMap road overlay"

\* lines 107-144: render the parsed body; the page as the statements leave
\* it, and the message of the exception one of them threw ("" when none)
render(d, layerType, data) ==
    IF data.kind = "null"
    THEN [dom |-> d, threw |-> "null is not an object"]
    ELSE LET d1 == showImage(d, data)
         IN  IF statsShown(data, layerType) /\ ~Has(data.stats, "min")
             THEN [dom |-> d1, threw |-> "undefined is not an object"]
             ELSE [dom |->
                      [d1 EXCEPT
                          !.statText =
                              IF statsShown(data, layerType)
                              THEN <<toFixed1(data.stats.min),
                                     toFixed1(data.stats.max),
                                     toFixed1(data.stats.mean)>>
                              ELSE @,
                          !.stats = IF statsShown(data, layerType)
                                    THEN "block" ELSE "none",
                          !.info = infoText(layerType),
                          !.loading = "none"],
                   threw |-> ""]

\* loadLayerImage up to `await fetch`, or to its end when a check throws
loadLayerImage_Start(regionKey, layerType, bypassCache) ==
    /\ cin' = [regionKey |-> regionKey, layerType |-> layerType,
               bypassCache |-> bypassCache]
    /\ IF argumentError(regionKey, layerType) # ""
       THEN /\ dom' = finallyBlock(catchBlock(showLoading(dom),
                          argumentError(regionKey, layerType)))
            /\ cpc' = "idle"
       ELSE /\ dom' = showLoading(dom)
            /\ cpc' = "fetch"
    /\ UNCHANGED <<svcVars, keyVars, loadVars, httpVars>>

\* initializeEarthEngine: registers the click listener and loads the default
initializeEarthEngine ==
    /\ cpc = "closed"
    /\ loadLayerImage_Start("RIDGECREST_CA", "DEM_ROADS", FALSE)

\* the click listener; a disabled button dispatches no click
loadButton_click(selectedRegion, selectedLayer, bypassCache) ==
    /\ cpc # "closed"
    /\ ~dom.disabled
    /\ loadLayerImage_Start(selectedRegion, selectedLayer, bypassCache)

\* `await fetch` settles
loadLayerImage_Fetched(response) ==
    /\ cpc = "fetch"
    /\ IF response.kind = "rejected"
       THEN /\ dom' = finallyBlock(catchBlock(dom, response.error))
            /\ cpc' = "idle"
       ELSE IF ~response.ok
       THEN /\ dom' = finallyBlock(catchBlock(dom,
                          "API request failed: " \o response.statusText))
            /\ cpc' = "idle"
       ELSE /\ cpc' = "json"
            /\ UNCHANGED dom
    /\ UNCHANGED <<cin, svcVars, keyVars, loadVars, httpVars>>

\* `await response.json()` settles
loadLayerImage_Parsed(data) ==
    /\ cpc = "json"
    /\ dom' = IF data.kind = "rejected"
              THEN finallyBlock(catchBlock(dom, data.error))
              ELSE LET r == render(dom, cin.layerType, data)
                   IN  IF r.threw # ""
                       THEN finallyBlock(catchBlock(r.dom, r.threw))
                       ELSE finallyBlock(r.dom)
    /\ cpc' = "idle"
    /\ UNCHANGED <<cin, svcVars, keyVars, loadVars, httpVars>>

InitClient ==
    /\ ServiceInit
    /\ KeyIdle
    /\ LoadIdle
    /\ HttpIdle
    /\ cin = <<>>
    /\ cpc = "closed"
    /\ dom \in Pages

RequestSettles ==
    \/ \E response \in FetchOutcomes : loadLayerImage_Fetched(response)
    \/ \E data \in JsonOutcomes : loadLayerImage_Parsed(data)

NextClient ==
    \/ initializeEarthEngine
    \/ \E selectedRegion \in RegionKeys, selectedLayer \in LayerValues,
          bypassCache \in BOOLEAN :
            loadButton_click(selectedRegion, selectedLayer, bypassCache)
    \/ RequestSettles

\* the backend request resolves or rejects
SpecClient == InitClient /\ [][NextClient]_vars /\ WF_vars(RequestSettles)

\* a loadLayerImage call is suspended at one of its awaits
InFlight == cpc \in {"fetch", "json"}
\* the page after a call: loading indicator hidden, load button enabled
Released == dom.loading = "none" /\ ~dom.disabled

(***************************************************************************)
(* C17.  Client load lifecycle: every invocation of loadLayerImage (the    *)
(* automatic first load or a click on the load button) shows the loading   *)
(* indicator and disables the load button for as long as it waits for the  *)
(* backend, and once the request resolves or rejects the indicator is      *)
(* hidden and the button enabled again, after a success and after every    *)
(* failure alike.                                                          *)
(***************************************************************************)
C17_ClientLoadLifecycle ==
    /\ [](InFlight => (dom.loading = "block" /\ dom.disabled))
    /\ [](cpc = "idle" => Released)
    /\ (InFlight ~> (cpc = "idle" /\ Released))

\* a call has ended in the catch block after the image was rendered
C17_Witness ==
    /\ cpc = "idle"
    /\ Released
    /\ dom.error = "block"
    /\ dom.errorText = "Error: undefined is not an object"
    /\ cin.layerType = "DEM"

(***************************************************************************)
(* C18.  A lost update is reachable.  Whenever a getDEMThumbnail call      *)
(* that fetched from the provider returns the elevation-only URL, the      *)
(* entry under its key is exactly {imageFilename, stats, timestamp}: it    *)
(* replaces the whole entry, whatever another call recorded there since    *)
(* this one started.  So of two concurrent misses on one key (demOnly =    *)
(* false and demOnly = true) that both succeed, the later writer drops the *)
(* compositeImageFilename the earlier one recorded and returned; the       *)
(* witness is such a run.                                                  *)
(***************************************************************************)
\* the call in slot p returns the elevation-only URL in this step, after a
\* fetch from the provider
ReturnsDemFetch(p) ==
    /\ Resumes(p)
    /\ pc'[p] = "idle"
    /\ call[p].op = "dem"
    /\ prev'.call = call[p]
    /\ prev'.result = UrlResult(UrlOf(demFilename(call[p].key)))

C18_LaterWriterReplacesEntry ==
    [][\A p \in Procs :
          ReturnsDemFetch(p)
          => /\ Cached(cacheMetadata', call[p].key)
             /\ DOMAIN cacheMetadata'[call[p].key]
                 = {"imageFilename", "stats", "timestamp"}
             /\ cacheMetadata'[call[p].key].imageFilename
                 = demFilename(call[p].key)
             /\ \A key \in DOMAIN cacheMetadata' \ {call[p].key} :
                    /\ Cached(cacheMetadata, key)
                    /\ cacheMetadata'[key] = cacheMetadata[key]]_vars

\* two misses on one key ran concurrently and both succeeded: the composite
\* call recorded its entry after the demOnly call had started (the entry is
\* still in the file, because the demOnly call's save failed), and the
\* entry the demOnly call left in memory has no compositeImageFilename
C18_Witness ==
    /\ Quiet
    /\ prev.call.op = "dem"
    /\ prev.call.demOnly
    /\ ~prev.call.skipCache
    /\ prev.cnt.elev = 1
    /\ prev.cnt.failed = {"save"}
    /\ Returned(demFilename(prev.call.key))
    /\ Cached(diskMetadata, prev.call.key)
    /\ Has(diskMetadata[prev.call.key], "compositeImageFilename")
    /\ diskMetadata[prev.call.key].timestamp > 1
    /\ compositeFilename(prev.call.key) \in files
    /\ Cached(cacheMetadata, prev.call.key)
    /\ ~Has(cacheMetadata[prev.call.key], "compositeImageFilename")

(***************************************************************************)
(* C19.  No request coalescing: a getDEMThumbnail or getRoadsThumbnail     *)
(* call that misses the cache issues a provider request and a download of  *)
(* its own before it first waits, also when another call for the same key  *)
(* is in flight; and when it returns a URL after that, it has written the  *)
(* entry under its key in the same step.  So two calls for one key that    *)
(* both start before either has written each request, each download and    *)
(* each write.                                                             *)
(***************************************************************************)
\* the files an entry names
FilesOf(entry) ==
    {entry[f] : f \in DOMAIN entry \cap {"imageFilename",
                                          "compositeImageFilename",
                                          "roadsImageFilename"}}

C19_NoRequestCoalescing ==
    [][\A p \in Procs :
          /\ (/\ StartsGetter
              /\ pc'[p] # pc[p]
              /\ call'[p].op \in {"dem", "roads"})
             => /\ ProviderCalls(cnt'[p]) = 1
                /\ Downloads(cnt'[p]) = 1
          /\ (/\ Resumes(p)
              /\ pc'[p] = "idle"
              /\ call[p].op \in {"dem", "roads"}
              /\ prev'.call = call[p]
              /\ prev'.result.kind = "url")
             => /\ ProviderCalls(prev'.cnt) >= 1
                /\ Downloads(prev'.cnt) >= 1
                /\ Cached(cacheMetadata', call[p].key)
                /\ cacheMetadata'[call[p].key].timestamp = started
                /\ prev'.result.url
                    \in {UrlOf(f) : f \in FilesOf(cacheMetadata'[call[p].key])}
       ]_vars

\* two calls for the same request started before either had written; the
\* first has requested, downloaded, written and returned, and the second
\* has issued its own request and finished its own download
C19_Witness ==
    /\ \E p \in Procs :
          /\ pc[p] = "dem_stats"
          /\ SameRequest(call[p], prev.call)
          /\ ~call[p].skipCache
          /\ cnt[p].elev = 1
          /\ cnt[p].dlDem = 1
          /\ cnt[p].failed = {}
    /\ ~prev.call.skipCache
    /\ prev.result.kind = "url"
    /\ prev.cnt.elev = 1
    /\ prev.cnt.dlDem = 1
    /\ prev.cnt.failed = {}
    /\ Cached(cacheMetadata, prev.call.key)
    /\ cacheMetadata[prev.call.key].timestamp > 1
    /\ diskMetadata = cacheMetadata

(***************************************************************************)
(* C20.  Cache-hit selection: when an initialized service is asked for a   *)
(* DEM thumbnail without skipCache and holds an entry under the key, the   *)
(* call returns the composite URL at once exactly when demOnly is false,   *)
(* compositeImageFilename is recorded and that file is in the cache        *)
(* directory; otherwise it returns the elevation-only URL at once exactly  *)
(* when imageFilename is recorded, non-empty, and that file is in the      *)
(* directory; otherwise it is a miss and the provider is contacted.        *)
(***************************************************************************)
\* the call this step starts returned u within the step, from the cache
ServedAtOnce(u) ==
    /\ pc' = pc
    /\ prev'.result = UrlResult(u)
    /\ prev'.cnt = ZeroCnt

\* the call this step starts has requested the elevation thumbnail
ContactsProvider ==
    IF pc' = pc
    THEN prev'.cnt.elev = 1 /\ prev'.result = ProviderError
    ELSE \E p \in Procs : pc'[p] # pc[p] /\ cnt'[p].elev = 1

C20_CacheHitSelection ==
    [][(/\ StartsGetter
        /\ initialized
        /\ StartedCall.op = "dem"
        /\ ~StartedCall.skipCache
        /\ Cached(cacheMetadata, StartedCall.key))
       => LET c == StartedCall
              e == cacheMetadata[c.key]
              compositeUsable ==
                  /\ ~c.demOnly
                  /\ Truthy(e, "compositeImageFilename")
                  /\ e.compositeImageFilename \in files
              imageUsable ==
                  /\ Truthy(e, "imageFilename")
                  /\ e.imageFilename \in files
          IN  IF compositeUsable
              THEN ServedAtOnce(UrlOf(e.compositeImageFilename))
              ELSE IF imageUsable
              THEN ServedAtOnce(UrlOf(e.imageFilename))
              ELSE ContactsProvider]_vars

\* a call with demOnly = false was served the elevation-only image, because
\* the composite the entry names is no longer in the directory
C20_Witness ==
    /\ prev.call.op = "dem"
    /\ ~prev.call.demOnly
    /\ ~prev.call.skipCache
    /\ prev.cnt = ZeroCnt
    /\ Returned(demFilename(prev.call.key))
    /\ Cached(cacheMetadata, prev.call.key)
    /\ Truthy(cacheMetadata[prev.call.key], "compositeImageFilename")
    /\ cacheMetadata[prev.call.key].compositeImageFilename \notin files

(***************************************************************************)
(* C21.  No retry: within one call of getDEMThumbnail, getRoadsThumbnail   *)
(* or getElevationStats each kind of provider request (elevation           *)
(* thumbnail, composite, roads, statistics) is issued at most once and     *)
(* each destination file is downloaded at most once.                       *)
(***************************************************************************)
\* no request and no download was issued twice
AtMostOnce(k) ==
    /\ k.elev <= 1 /\ k.comp <= 1 /\ k.roads <= 1 /\ k.stats <= 1
    /\ k.dlDem <= 1 /\ k.dlComp <= 1 /\ k.dlRoads <= 1

C21_NoRetry ==
    /\ \A p \in Procs : AtMostOnce(cnt[p])
    /\ prev.call.op # "none" => AtMostOnce(prev.cnt)

(***************************************************************************)
(* C22.  Statistics are computed once per region: when a getDEMThumbnail   *)
(* or getElevationStats call without skipCache has returned successfully   *)
(* after querying the statistics of a region, a following call of either   *)
(* operation without skipCache for the same region does not query them     *)
(* again.                                                                  *)
(***************************************************************************)
\* the call that completed last was a successful call of getDEMThumbnail or
\* getElevationStats without skipCache that queried the statistics, no call
\* is in flight, and this step starts another such call for the same region
C22_NextCallStarts ==
    /\ Quiet
    /\ initialized
    /\ prev.call.op \in {"dem", "stats"}
    /\ ~prev.call.skipCache
    /\ prev.result.kind \in {"url", "stats"}
    /\ prev.cnt.stats = 1
    /\ prev.cnt.failed = {}
    /\ StartsGetter
    /\ StartedCall.op \in {"dem", "stats"}
    /\ StartedCall.region = prev.call.region
    /\ ~StartedCall.skipCache

C22_StatsOncePerRegion ==
    [][C22_NextCallStarts
       => IF pc' = pc
          THEN prev'.cnt.stats = 0
          ELSE \A p \in Procs : pc'[p] # pc[p] => cnt'[p].stats = 0]_vars

(***************************************************************************)
(* C23.  Entry fields only accumulate: a successful operation leaves in    *)
(* every entry each of the fields imageFilename, compositeImageFilename,   *)
(* roadsImageFilename and stats that the entry had before the operation.   *)
(* Stated for the second call made to the service, when every entry of the *)
(* map was recorded before that call started (the first call had returned  *)
(* by then, so nothing but the second call has touched the map since).     *)
(***************************************************************************)
ArtifactFields ==
    {"imageFilename", "compositeImageFilename", "roadsImageFilename", "stats"}

\* the second call returns successfully in this step from slot p, and the
\* map is as it was when the call started
C23_SecondCallReturns(p) ==
    /\ Resumes(p)
    /\ pc'[p] = "idle"
    /\ prev'.call = call[p]
    /\ prev'.result.kind \in {"url", "stats"}
    /\ started = 2
    /\ \A key \in DOMAIN cacheMetadata : cacheMetadata[key].timestamp = 1

C23_FieldsOnlyAccumulate ==
    [][\A p \in Procs :
          C23_SecondCallReturns(p)
          => \A key \in DOMAIN cacheMetadata :
                /\ Cached(cacheMetadata', key)
                /\ \A f \in ArtifactFields :
                      Has(cacheMetadata[key], f)
                      => Has(cacheMetadata'[key], f)]_vars

(***************************************************************************)
(* C24.  Road dataset unavailable: when building the road overlay failed   *)
(* while a getDEMThumbnail call with demOnly = false was producing the     *)
(* composite and the call returned a URL, it returned the URL of           *)
(* dem_<key>.png, and the entry it recorded has no compositeImageFilename. *)
(***************************************************************************)
\* the call in slot p, whose road overlay failed, returns a URL in this step
ReturnsAfterOverlayFailure(p) ==
    /\ Resumes(p)
    /\ pc'[p] = "idle"
    /\ call[p].op = "dem"
    /\ ~call[p].demOnly
    /\ prev'.call = call[p]
    /\ prev'.result.kind = "url"
    /\ "overlay" \in prev'.cnt.failed

C24_RoadOverlayFallback ==
    [][\A p \in Procs :
          ReturnsAfterOverlayFailure(p)
          => /\ prev'.result = UrlResult(UrlOf(demFilename(call[p].key)))
             /\ Cached(cacheMetadata', call[p].key)
             /\ ~Has(cacheMetadata'[call[p].key], "compositeImageFilename")
       ]_vars

(***************************************************************************)
(* C25.  Disk mirrors memory: every step that changes the metadata map     *)
(* rewrites the whole metadata document in the same step, so that the      *)
(* document equals the complete map afterwards unless that write failed    *)
(* (then the document is as before); the document never changes otherwise; *)
(* and every successful save, also one after a failed save, leaves the     *)
(* document equal to the map.                                              *)
(***************************************************************************)
\* the call in slot p returns in this step from a path that ends in
\* saveCacheMetadata, and the write succeeded
ReturnsSaved(p) ==
    /\ Resumes(p)
    /\ pc'[p] = "idle"
    /\ prev'.call = call[p]
    /\ \/ prev'.result.kind = "url"
       \/ prev'.result.kind = "stats" /\ ~call[p].skipCache
    /\ "save" \notin prev'.cnt.failed

C25_DiskMirrorsMemory ==
    [][/\ (cacheMetadata' # cacheMetadata \/ diskMetadata' # diskMetadata)
          => \/ diskMetadata' = cacheMetadata'
             \/ /\ diskMetadata' = diskMetadata
                /\ "save" \in prev'.cnt.failed
                /\ \E p \in Procs : Resumes(p)
       /\ \A p \in Procs : ReturnsSaved(p) => diskMetadata' = cacheMetadata'
      ]_vars

\* two calls have recorded entries under two keys and the document holds
\* the whole map
C25_Witness ==
    /\ Quiet
    /\ started = 2
    /\ Cardinality(DOMAIN cacheMetadata) = 2
    /\ diskMetadata = cacheMetadata
    /\ "save" \notin prev.cnt.failed
    /\ prev.result.kind = "url"

(***************************************************************************)
(* C26.  Frame of the statistics merge: when the query of a                *)
(* getElevationStats call without skipCache succeeds and an entry exists   *)
(* under the probe key at that moment, the entry gets the new stats and    *)
(* keeps every other field (imageFilename, compositeImageFilename,         *)
(* roadsImageFilename, timestamp) as it was; when no entry exists, the     *)
(* entry {imageFilename: "", stats, timestamp} is created; no other key    *)
(* changes in either case.                                                 *)
(***************************************************************************)
\* the getElevationStats call in slot p, made without skipCache, returns the
\* statistics it queried in this step
ReturnsQueriedStats(p) ==
    /\ Resumes(p)
    /\ pc'[p] = "idle"
    /\ call[p].op = "stats"
    /\ ~call[p].skipCache
    /\ prev'.call = call[p]
    /\ prev'.result.kind = "stats"

C26_StatsMergeFrame ==
    [][\A p \in Procs :
          ReturnsQueriedStats(p)
          => LET key == call[p].key
                 new == cacheMetadata'[key]
             IN  /\ DOMAIN cacheMetadata' = DOMAIN cacheMetadata \cup {key}
                 /\ \A other \in DOMAIN cacheMetadata \ {key} :
                        cacheMetadata'[other] = cacheMetadata[other]
                 /\ new.stats = prev'.result.stats
                 /\ IF Cached(cacheMetadata, key)
                    THEN /\ DOMAIN new = DOMAIN cacheMetadata[key] \cup {"stats"}
                         /\ \A f \in DOMAIN cacheMetadata[key] \ {"stats"} :
                                new[f] = cacheMetadata[key][f]
                    ELSE new = [imageFilename |-> "",
                                stats |-> prev'.result.stats,
                                timestamp |-> started]]_vars

\* a getElevationStats call that missed has merged its statistics into an
\* entry that a getDEMThumbnail call recorded while it was waiting
C26_Witness ==
    /\ prev.call.op = "stats"
    /\ ~prev.call.skipCache
    /\ prev.cnt.stats = 1
    /\ prev.result.kind = "stats"
    /\ Cached(cacheMetadata, prev.call.key)
    /\ Truthy(cacheMetadata[prev.call.key], "imageFilename")
    /\ cacheMetadata[prev.call.key].stats = prev.result.stats
    /\ diskMetadata = cacheMetadata

(***************************************************************************)
(* C27.  getElevationStats with skipCache = true on an initialized service *)
(* always queries the provider, also when the probe key has an entry with  *)
(* stats; when the query succeeds it returns the queried statistics; and   *)
(* no step of the call changes the metadata map or the metadata document.  *)
(***************************************************************************)
C27_StatsSkipCacheFrame ==
    [][/\ (/\ StartsGetter
           /\ initialized
           /\ StartedCall.op = "stats"
           /\ StartedCall.skipCache)
          => /\ \E p \in Procs :
                    /\ pc[p] = "idle"
                    /\ pc'[p] = "stats_eval"
                    /\ cnt'[p].stats = 1
             /\ cacheMetadata' = cacheMetadata
             /\ diskMetadata' = diskMetadata
       /\ \A p \in Procs :
             (/\ Resumes(p)
              /\ call[p].op = "stats"
              /\ call[p].skipCache)
             => /\ pc'[p] = "idle"
                /\ prev'.call = call[p]
                /\ prev'.cnt.stats = 1
                /\ prev'.result.kind = "stats"
                    => (/\ prev'.result.stats \in StatsValues
                        /\ prev'.cnt.failed = {})
                /\ prev'.result.kind # "stats"
                    => (/\ prev'.result = ProviderError
                        /\ prev'.cnt.failed = {"stats"})
                /\ cacheMetadata' = cacheMetadata
                /\ diskMetadata' = diskMetadata]_vars

\* the second call made, a getElevationStats call with skipCache, has
\* returned statistics that differ from those of the entry under its key,
\* which was recorded before the call started; the entry, in memory and in
\* the document, is as it was
C27_Witness ==
    /\ prev.call.op = "stats"
    /\ prev.call.skipCache
    /\ prev.cnt.stats = 1
    /\ prev.result.kind = "stats"
    /\ Cached(cacheMetadata, prev.call.key)
    /\ Has(cacheMetadata[prev.call.key], "stats")
    /\ cacheMetadata[prev.call.key].stats # prev.result.stats
    /\ cacheMetadata[prev.call.key].timestamp < started
    /\ started = 2
    /\ diskMetadata = cacheMetadata

(***************************************************************************)
(* C28.  Initialization ordering: an initialize() call on an uninitialized *)
(* service first authenticates; the handshake starts only in the step in   *)
(* which the authentication succeeds; the service becomes initialized only *)
(* in the step in which the handshake succeeds; when either fails the call *)
(* fails and the service stays uninitialized; an initialized service stays *)
(* initialized; and a call made after a failure starts with the            *)
(* authentication again.                                                   *)
(***************************************************************************)
C28_InitializationOrdering ==
    [][/\ (initPc = "idle" /\ initPc' # "idle")
          => (~initialized /\ initPc' = "auth")
       /\ (initPc # "handshake" /\ initPc' = "handshake")
          => (initPc = "auth" /\ initPrev' = initPrev)
       /\ (~initialized /\ initialized')
          => (/\ initPc = "handshake"
              /\ initPc' = "idle"
              /\ initPrev' = "initialized")
       /\ (initPc = "auth" /\ initPc' \notin {"auth", "handshake"})
          => (initPc' = "idle" /\ initPrev' = "failed" /\ ~initialized')
       /\ (initPc = "handshake" /\ ~initialized')
          => (initPc' \in {"idle", "handshake"}
              /\ (initPc' = "idle" => initPrev' = "failed"))
       /\ initialized => initialized'
       /\ initPc \in {"auth", "handshake"} => ~initialized
      ]_vars

\* an initialize() call made after a failed one has authenticated again and
\* waits for the handshake
C28_Witness ==
    /\ initPc = "handshake"
    /\ initPrev = "failed"
    /\ ~initialized

(***************************************************************************)
(* C29.  Record only after download: a getDEMThumbnail or                  *)
(* getRoadsThumbnail call changes the metadata map and the metadata        *)
(* document in no step but the one in which it returns a URL, and the      *)
(* entry it writes then names only files whose download this call issued   *)
(* and saw succeed; the step in which a call fails with a download error   *)
(* writes no file and leaves map and document as they are, so a call that  *)
(* fails so has changed neither.                                           *)
(***************************************************************************)
\* the download of this call that fetches the file an entry field names
DownloadOf(field) ==
    CASE field = "imageFilename" -> "dlDem"
      [] field = "compositeImageFilename" -> "dlComp"
      [] field = "roadsImageFilename" -> "dlRoads"

C29_RecordOnlyAfterDownload ==
    [][/\ (StartsGetter /\ StartedCall.op \in {"dem", "roads"})
          => (cacheMetadata' = cacheMetadata /\ diskMetadata' = diskMetadata)
       /\ \A p \in Procs :
             (Resumes(p) /\ call[p].op \in {"dem", "roads"})
             => IF pc'[p] = "idle" /\ prev'.result.kind = "url"
                THEN LET key == call[p].key
                         new == cacheMetadata'[key]
                     IN  /\ Cached(cacheMetadata', key)
                         /\ \A f \in DOMAIN new \cap {"imageFilename",
                                                      "compositeImageFilename",
                                                      "roadsImageFilename"} :
                                /\ prev'.cnt[DownloadOf(f)] >= 1
                                /\ DownloadOf(f) \notin prev'.cnt.failed
                         /\ prev'.result.url \in {UrlOf(g) : g \in FilesOf(new)}
                ELSE /\ cacheMetadata' = cacheMetadata
                     /\ diskMetadata' = diskMetadata
                     /\ (pc'[p] = "idle" /\ prev'.result = DownloadError)
                         => files' = files]_vars

\* the second call made, a getDEMThumbnail call with skipCache, has failed
\* in a download; the entry the first call recorded under the same key is
\* as it was, in memory and in the document
C29_Witness ==
    /\ Quiet
    /\ started = 2
    /\ prev.call.op = "dem"
    /\ prev.result = DownloadError
    /\ "dlDem" \in prev.cnt.failed
    /\ Cached(cacheMetadata, prev.call.key)
    /\ cacheMetadata[prev.call.key].timestamp < started
    /\ diskMetadata = cacheMetadata

(***************************************************************************)
(* C30.  Entry well-formedness: in every reachable state, starting from    *)
(* the empty map, every entry's filenames are derived from its own key:    *)
(* imageFilename is "" or dem_<key>.png; compositeImageFilename is         *)
(* dem_roads_<key>.png and occurs only together with a non-empty           *)
(* imageFilename; roadsImageFilename is roads_<key>.png and occurs only    *)
(* under keys ending in "_roads"; and no key ending in "_roads" has        *)
(* imageFilename, compositeImageFilename or stats.                         *)
(***************************************************************************)
\* key ends in "_roads" (keys are those of the regions and sizes called)
EndsInRoads(key) ==
    \E base \in DemKeys \cup RoadsKeys : key = base \o "_roads"

WellFormedEntry(key, e) ==
    /\ Has(e, "imageFilename")
        => e.imageFilename \in {"", "dem_" \o key \o ".png"}
    /\ Has(e, "compositeImageFilename")
        => /\ e.compositeImageFilename = "dem_roads_" \o key \o ".png"
           /\ Truthy(e, "imageFilename")
    /\ Has(e, "roadsImageFilename")
        => /\ e.roadsImageFilename = "roads_" \o key \o ".png"
           /\ EndsInRoads(key)
    /\ EndsInRoads(key)
        => /\ ~Has(e, "imageFilename")
           /\ ~Has(e, "compositeImageFilename")
           /\ ~Has(e, "stats")

C30_EntryWellFormedness ==
    /\ \A key \in DOMAIN cacheMetadata :
          WellFormedEntry(key, cacheMetadata[key])
    /\ \A key \in DOMAIN diskMetadata :
          WellFormedEntry(key, diskMetadata[key])

\* the map holds a roads entry and a composite entry
C30_Witness ==
    /\ \E key \in DOMAIN cacheMetadata :
          /\ EndsInRoads(key)
          /\ Has(cacheMetadata[key], "roadsImageFilename")
    /\ \E key \in DOMAIN cacheMetadata :
          /\ ~EndsInRoads(key)
          /\ Has(cacheMetadata[key], "compositeImageFilename")
    /\ diskMetadata = cacheMetadata

(***************************************************************************)
(* C31.  A getDEMThumbnail call with demOnly = true never issues the       *)
(* composite request or the composite download, never returns the URL of   *)
(* dem_roads_<key>.png and never records compositeImageFilename, whatever  *)
(* the cache holds and whatever skipCache is: served from the cache it     *)
(* returns the URL of dem_<key>.png and writes nothing, and after a fetch  *)
(* it returns that URL and leaves an entry without compositeImageFilename. *)
(***************************************************************************)
DemOnlyCall(c) == c.op = "dem" /\ c.demOnly

C31_DemOnlyNeverComposite ==
    [][/\ \A p \in Procs :
             DemOnlyCall(call'[p])
             => /\ cnt'[p].comp = 0
                /\ cnt'[p].dlComp = 0
                /\ pc'[p] \in {"dem_download", "dem_stats"}
       /\ (StartsGetter /\ DemOnlyCall(StartedCall))
          => /\ cacheMetadata' = cacheMetadata
             /\ diskMetadata' = diskMetadata
             /\ (pc' = pc /\ prev'.result.kind = "url")
                 => prev'.result
                     = UrlResult(UrlOf(demFilename(StartedCall.key)))
       /\ \A p \in Procs :
             (Resumes(p) /\ DemOnlyCall(call[p]) /\ pc'[p] = "idle")
             => /\ prev'.call = call[p]
                /\ prev'.cnt.comp = 0
                /\ prev'.cnt.dlComp = 0
                /\ "overlay" \notin prev'.cnt.failed
                /\ IF prev'.result.kind = "url"
                   THEN /\ prev'.result
                            = UrlResult(UrlOf(demFilename(call[p].key)))
                        /\ Cached(cacheMetadata', call[p].key)
                        /\ ~Has(cacheMetadata'[call[p].key],
                                "compositeImageFilename")
                   ELSE cacheMetadata' = cacheMetadata]_vars

\* a demOnly call has been served dem_<key>.png from an entry that names a
\* composite whose file is in the directory
C31_Witness ==
    /\ DemOnlyCall(prev.call)
    /\ ~prev.call.skipCache
    /\ prev.cnt = ZeroCnt
    /\ Returned(demFilename(prev.call.key))
    /\ Cached(cacheMetadata, prev.call.key)
    /\ Truthy(cacheMetadata[prev.call.key], "compositeImageFilename")
    /\ cacheMetadata[prev.call.key].compositeImageFilename \in files

(***************************************************************************)
(* The servers from start-up on: the module body constructs the service,   *)
(* calls initialize() once and starts listening; requests are then handled *)
(* one after the other against the service's initialized flag.  What a     *)
(* getter does once it is past the gate is taken from the service model    *)
(* above in summary: it fails, or it returns its result, from the cache or *)
(* after recording an entry.                                               *)
(***************************************************************************)
\* the region, key and entries of the requests served here
ServedRegion == CHOOSE r \in Regions : TRUE
ServedKey(op) ==
    CASE op = "getDEMThumbnail" ->
             getCacheKey(ServedRegion, DefaultSize, DefaultSize)
      [] op = "getRoadsThumbnail" ->
             roadsCacheKey(ServedRegion, DefaultSize, DefaultSize)
      [] op = "getElevationStats" -> statsCacheKey(ServedRegion)

\* the metadata maps the constructor can have loaded
ServerCaches ==
    {<<>>,
     (ServedKey("getDEMThumbnail") :>
         demEntry(ServedKey("getDEMThumbnail"),
                  CHOOSE st \in StatsValues : TRUE, 0))}

\* the map after the getter that settled with outcome recorded its result
RecordedBy_server(meta, op, outcome) ==
    LET key == ServedKey(op)
        st == CHOOSE s \in StatsValues : TRUE
    IN  IF outcome.kind = "stats"
        THEN statsMerge(meta, key, outcome.stats, 1)
        ELSE IF outcome.kind # "url" THEN meta
        ELSE IF outcome.url = UrlOf(compositeFilename(key))
        THEN Put(meta, key, compositeEntry(key, st, 1))
        ELSE IF outcome.url = UrlOf(demFilename(key))
        THEN Put(meta, key, demEntry(key, st, 1))
        ELSE Put(meta, key, roadsEntry(key, 1))

\* a start-up that calls initialize() again after it has failed
server_Start_retries(keyOk) ==
    /\ hpc = "down" \/ (initPc = "idle" /\ initPrev = "failed")
    /\ hpc' = IF hpc = "down" THEN "listening" ELSE hpc
    /\ initPc' = IF initialized \/ ~keyOk THEN "idle" ELSE "auth"
    /\ initPrev' = IF initialized THEN "returned"
                   ELSE IF ~keyOk THEN "failed"
                   ELSE initPrev
    /\ UNCHANGED <<initialized, cacheMetadata, diskMetadata, files, pc, call,
                   cnt, started, prev, hreq, hcalls, hresp,
                   keyVars, loadVars, clientVars>>

\* the module body: eeService.initialize() up to its first await, then
\* app.listen / Bun.serve
server_Start(keyOk) ==
    /\ hpc = "down"
    /\ hpc' = "listening"
    /\ initPc' = IF initialized \/ ~keyOk THEN "idle" ELSE "auth"
    /\ initPrev' = IF initialized THEN "returned"
                   ELSE IF ~keyOk THEN "failed"
                   ELSE initPrev
    /\ UNCHANGED <<initialized, cacheMetadata, diskMetadata, files, pc, call,
                   cnt, started, prev, hreq, hcalls, hresp,
                   keyVars, loadVars, clientVars>>

\* a request arrives; its body is read before the handler runs (the
\* express.json() middleware, await req.json()), and the request is kept
\* together with whether the service was still uninitialized on arrival
server_Arrive(req) ==
    /\ hpc \in {"listening", "responded"}
    /\ hreq' = [server |-> req.server, endpoint |-> req.endpoint,
                body |-> req.body, early |-> ~initialized]
    /\ hpc' = "parsing"
    /\ hcalls' = <<>>
    /\ hresp' = NoResponse
    /\ UNCHANGED <<svcVars, keyVars, loadVars, clientVars>>

\* the body has been read: body and region are tested and the getter is
\* called, which throws at once when the service is not initialized
server_Handle ==
    LET op == IF hreq.endpoint = "dem" THEN "getDEMThumbnail"
              ELSE "getRoadsThumbnail"
    IN  /\ hpc = "parsing"
        /\ IF bodyThrows(hreq) # NoResult
           THEN /\ hresp' = ErrorResponse(500, errorMessage(bodyThrows(hreq)))
                /\ hpc' = "responded"
                /\ hcalls' = <<>>
           ELSE IF hreq.body.region \in {Undefined, "null"}
           THEN /\ hresp' = ErrorResponse(400, "Region is required")
                /\ hpc' = "responded"
                /\ hcalls' = <<>>
           ELSE IF throwsNotInitialized
           THEN /\ hresp' = ErrorResponse(500,
                                errorMessage(NotInitializedError))
                /\ hpc' = "responded"
                /\ hcalls' = Settled(Called(<<>>, op), NotInitializedError)
           ELSE /\ hresp' = NoResponse
                /\ hpc' = "thumbnail"
                /\ hcalls' = Called(<<>>, op)
        /\ UNCHANGED <<hreq, svcVars, keyVars, loadVars, clientVars>>

\* the thumbnail getter, past the gate, settles; the DEM handler goes on to
\* call getElevationStats
server_ThumbnailSettled(outcome, records) ==
    /\ hpc = "thumbnail"
    /\ outcome # NotInitializedError
    /\ IF outcome.kind # "url"
       THEN /\ hresp' = ErrorResponse(500, errorMessage(outcome))
            /\ hpc' = "responded"
            /\ hcalls' = Settled(hcalls, outcome)
       ELSE IF hreq.endpoint = "roads"
       THEN /\ hresp' = OkResponse([thumbnailUrl |-> outcome.url])
            /\ hpc' = "responded"
            /\ hcalls' = Settled(hcalls, outcome)
       ELSE /\ hpc' = "stats"
            /\ hcalls' = Called(Settled(hcalls, outcome), "getElevationStats")
            /\ UNCHANGED hresp
    /\ cacheMetadata' = IF records
                        THEN RecordedBy_server(cacheMetadata, hcalls[1].op,
                                               outcome)
                        ELSE cacheMetadata
    /\ diskMetadata' = cacheMetadata'
    /\ UNCHANGED <<initialized, initPc, initPrev, files, pc, call, cnt,
                   started, prev, hreq, keyVars, loadVars, clientVars>>

\* getElevationStats, past the gate, settles
server_StatsSettled(outcome, records) ==
    /\ hpc = "stats"
    /\ outcome # NotInitializedError
    /\ hcalls' = Settled(hcalls, outcome)
    /\ hresp' = IF outcome.kind = "stats"
                THEN OkResponse([thumbnailUrl |-> hcalls[1].result.url,
                                 stats |-> outcome.stats])
                ELSE ErrorResponse(500, errorMessage(outcome))
    /\ hpc' = "responded"
    /\ cacheMetadata' = IF records
                        THEN RecordedBy_server(cacheMetadata,
                                               "getElevationStats", outcome)
                        ELSE cacheMetadata
    /\ diskMetadata' = cacheMetadata'
    /\ UNCHANGED <<initialized, initPc, initPrev, files, pc, call, cnt,
                   started, prev, hreq, keyVars, loadVars, clientVars>>

InitServer ==
    /\ initialized = FALSE
    /\ initPc = "idle"
    /\ initPrev = "none"
    /\ cacheMetadata \in ServerCaches
    /\ diskMetadata = cacheMetadata
    /\ files = {}
    /\ pc = [p \in Procs |-> "idle"]
    /\ call = [p \in Procs |-> NoCall]
    /\ cnt = [p \in Procs |-> ZeroCnt]
    /\ started = 0
    /\ prev = [call |-> NoCall, result |-> NoResult, cnt |-> ZeroCnt]
    /\ KeyIdle
    /\ LoadIdle
    /\ ClientIdle
    /\ hreq = NoRequest
    /\ hpc = "down"
    /\ hcalls = <<>>
    /\ hresp = NoResponse

server_Accepts == \E req \in Requests : server_Arrive(req)

NextServer ==
    \/ \E keyOk \in BOOLEAN : server_Start(keyOk)
    \/ \E authOk \in BOOLEAN : initialize_Authenticated(authOk)
    \/ \E eeOk \in BOOLEAN : initialize_HandshakeDone(eeOk)
    \/ server_Accepts
    \/ server_Handle
    \/ /\ hpc = "thumbnail"
       /\ \E outcome \in ThumbnailOutcomes(hreq), records \in BOOLEAN :
             server_ThumbnailSettled(outcome, records)
    \/ \E outcome \in StatsOutcomes, records \in BOOLEAN :
          server_StatsSettled(outcome, records)

SpecServer == InitServer /\ [][NextServer]_vars

\* the request at hand carries a readable body that names a region
ServedWithRegion == bodyThrows(hreq) = NoResult /\ HasRegion(hreq)

\* a step in which the handler of the request at hand runs
HandlesRequest == hpc = "parsing" /\ hpc' # "parsing"

(***************************************************************************)
(* C32 as stated.  A request with a region that arrived before             *)
(* initialization completed, or after it failed, is answered with status   *)
(* 500.                                                                    *)
(***************************************************************************)
C32_ArrivedEarlyAnswered500 ==
    (/\ hpc = "responded"
     /\ ServedWithRegion
     /\ hreq.early \/ initPrev = "failed")
    => hresp.status = 500

(***************************************************************************)
(* C32.  Server start-up: initialize() is attempted exactly once, when the *)
(* server starts, and never again, whether it succeeded or failed; a       *)
(* request with a region whose handler runs while the service is not       *)
(* initialized (initialization still running, or failed) is answered with  *)
(* status 500 and leaves the metadata map, the metadata file and the image *)
(* files as they were; and the server can always take the next request.    *)
(***************************************************************************)
C32_ServerStartup ==
    /\ [][/\ hpc' # "down"
          /\ hpc = "down" => (initPc' = "auth" \/ initPrev' = "failed")
          /\ (initPc = "idle" /\ initPc' # "idle")
                => (hpc = "down" /\ initPrev = "none")
          /\ initPrev # "none"
                => (/\ initPrev' = initPrev
                    /\ initPc' = "idle"
                    /\ initialized' = initialized)
          /\ (HandlesRequest /\ ServedWithRegion /\ ~initialized)
                => (/\ hresp'.status = 500
                    /\ hpc' = "responded"
                    /\ UNCHANGED <<cacheMetadata, diskMetadata, files>>)]_vars
    /\ [](/\ initialized <=> initPrev = "initialized"
          /\ hpc = "down" => (initPc = "idle" /\ initPrev = "none")
          /\ (hpc = "responded" /\ ServedWithRegion /\ ~initialized)
                => hresp = ErrorResponse(500,
                                errorMessage(NotInitializedError))
          /\ hpc \in {"listening", "responded"} => ENABLED server_Accepts)

\* initialization has failed, the metadata map is not empty, and a request
\* with a region that arrived while initialization was running has been
\* answered with the service's not-initialized error
C32_Witness ==
    /\ initPrev = "failed"
    /\ hpc = "responded"
    /\ ServedWithRegion
    /\ hreq.early
    /\ hresp = ErrorResponse(500, errorMessage(NotInitializedError))
    /\ cacheMetadata # <<>>

(***************************************************************************)
(* C33.  Client display exclusivity: once a loadLayerImage call has ended  *)
(* on a page that has the layer image, the error message and the image are *)
(* never both visible: either the call succeeded, the image is shown and   *)
(* the error hidden, or it failed, the error is shown and the image        *)
(* hidden.                                                                 *)
(***************************************************************************)
C33_DisplayExclusivity ==
    (cpc = "idle" /\ dom.hasImage)
    => (/\ ~(dom.error = "block" /\ dom.image = "block")
        /\ dom.error = "none" => dom.image = "block"
        /\ dom.error = "block" => dom.image = "none")

=============================================================================
